---- MODULE Spec2Model ----
(***************************************************************************)
(* MCPTester: the protocol client (class MCPClient of src/index.js) and   *)
(* the operations of MCPTester that drive it (src/unnamed/part_002).       *)
(*                                                                         *)
(* The specifications share the state:                                     *)
(*   Spec         the session at message level: requests are issued, the   *)
(*                target delivers parsed messages in any order, timers     *)
(*                expire, the session is closed;                           *)
(*   SpecFraming  the transport at byte level: the target writes bytes to  *)
(*                the child's stdout, the data handler receives them in    *)
(*                arbitrary chunks, decodes, buffers, splits and parses.   *)
(*   FairSpec     Spec with the fairness the event loop gives to timers.   *)
(*   SpecTester   one operation (batchTestTools, generateTestReport or     *)
(*                benchmarkSingleTool) on its own client, from its first   *)
(*                statement to its return or throw;                        *)
(*   SpecStats    the statistics computed over the samples of a benchmark; *)
(*   SpecBenchmark  benchmarkMCPPerformance on its own client;             *)
(*   SpecMatch    testNegativeCases with one case, over every answer of    *)
(*                the target and every pattern;                            *)
(*   SpecNegative testNegativeCases over lists of cases;                   *)
(*   SpecParser   parseServerCommand over launch strings;                  *)
(*   SpecDiscovery  listResources and listPrompts on one client;           *)
(*   SpecTimeout  testMCPServer with a timeout argument and a clock;       *)
(*   SpecValidate validateMCPTools over tool names and test parameters.    *)
(***************************************************************************)
EXTENDS Integers, Sequences, FiniteSets, TLC

(***************************************************************************)
(* Bounds of the model.                                                    *)
(***************************************************************************)
\* number of sendRequest invocations on one client
MaxCalls == 2
\* number of fragments the target writes to its stdout (SpecFraming)
MaxWrites == 4

(***************************************************************************)
(* Values.                                                                 *)
(***************************************************************************)
\* JavaScript `undefined` for a message id
NoId == -1

\* no call: the `undefined` of this.pendingRequests.get, and of a client
\* on which initialize() was not called
NoCall == 0

\* text values are sequences of characters
NoText == << >>

Methods == {"initialize", "tools/list", "tools/call", "resources/list", "prompts/list"}

\* src/index.js:214  new Error(`请求超时: ${method}`)
TimeoutError == <<"timeout">>
\* src/index.js:177  the fallback text of a remote error without a message
UnknownError == <<"Unknown error">>
\* src/index.js:204  this.process is null: reading .stdin throws a TypeError
WriteError == <<"TypeError">>

Pending == [state |-> "pending", value |-> NoText]
Resolved(v) == [state |-> "resolved", value |-> v]
Rejected(v) == [state |-> "rejected", value |-> v]

\* the error member of an inbound message: absent, null, or an object whose
\* message member is a text (NoText when absent or empty)
NoError == [kind |-> "undefined", message |-> NoText]
NullError == [kind |-> "null", message |-> NoText]
ErrorObject(t) == [kind |-> "object", message |-> t]

Msg(i, meth, err, res) == [id |-> i, method |-> meth, error |-> err, result |-> res]

\* the results and the error objects the target chooses from
Results == {<<"a">>, <<"b">>}
Errors == {NoError, NullError, ErrorObject(<<"boom">>), ErrorObject(NoText)}

\* the parsed messages the target can deliver on a session of MaxCalls calls:
\* responses for every id that was or was not issued, with or without an
\* error member; notifications; requests of the server (a method and an id)
Responses ==
    { Msg(i, FALSE, NoError, r) : i \in 1..(MaxCalls + 1), r \in Results }
        \cup { Msg(i, FALSE, e, <<"a">>) : i \in 1..(MaxCalls + 1), e \in Errors }
MethodMessages ==
    { Msg(i, TRUE, NoError, NoText) : i \in {NoId} \cup 0..MaxCalls }
Messages == Responses \cup MethodMessages

(***************************************************************************)
(* State.                                                                  *)
(***************************************************************************)
VARIABLES
    process,          \* this.process: "null" or "child"
    messageBuffer,    \* this.messageBuffer: the characters not yet framed
    pendingRequests,  \* this.pendingRequests: id -> the call whose resolve/reject it holds
    nextId,           \* this.nextId
    initialized,      \* this.initialized
    calls,            \* the sendRequest invocations, in order: the id each one stamped
    handshake,        \* the call initialize() awaits (NoCall before initialize())
    outcome,          \* per call: the state of the promise sendRequest returned
    timer,            \* per call: "armed" or "fired" (the setTimeout of sendRequest)
    notifications,    \* number of 'notification' events the last inbound step emitted
    sent,             \* the fragments the target wrote to its stdout so far (history)
    stdout,           \* bytes the target wrote and the data handler has not received
    received,         \* characters the data handler appended to the buffer so far (history)
    handled,          \* values handed to handleMessage by processMessages so far (history)
    raised,           \* an exception escaped the stdout data handler
    ev,               \* the last step: [op, id], id being the id of an inbound message
    operation,        \* the MCPTester operation that owns the client ("none": a bare client)
    args,             \* its arguments
    pc,               \* its position: the await it is suspended at
    index,            \* its loop variable (test case, warm-up or measured iteration)
    toolNames,        \* the tool names that listTools() returned
    promises,         \* the calls of the Promise.all in progress, in the order of creation
    results,          \* testResults.results / toolTestResults / metrics.listTools / a returned value
    execution_times,  \* benchmarkResults.execution_times
    errors,           \* benchmarkResults.errors
    statistics,       \* benchmarkResults.statistics / a summary of calculateStats / the counts
    exit,             \* how the operation left: "running", "returned" or "thrown"
    resources,        \* this.resources of the client (src/index.js:258)
    prompts,          \* this.prompts of the client (src/index.js:269)
    elapsed           \* per call of a timed run: seconds since its setTimeout was armed

client == <<process, pendingRequests, nextId, initialized, calls, handshake, outcome, timer,
            notifications>>
transport == <<messageBuffer, sent, stdout, received, handled, raised>>
tester == <<operation, args, pc, index, toolNames, promises, results, execution_times,
            errors, statistics, exit, resources, prompts, elapsed>>
vars == <<process, messageBuffer, pendingRequests, nextId, initialized, calls, handshake,
          outcome, timer, notifications, sent, stdout, received, handled, raised, ev,
          operation, args, pc, index, toolNames, promises, results, execution_times,
          errors, statistics, exit, resources, prompts, elapsed>>

Event(op, id) == [op |-> op, id |-> id]

(***************************************************************************)
(* The statistics of a benchmark: calculateStats (src/index.js:963-973)    *)
(* and the statistics block of benchmarkSingleTool (part_002:3422-3445).   *)
(* Times are whole milliseconds; a percentile rank is given in percent.    *)
(***************************************************************************)
\* JavaScript `undefined` for a member of the statistics
Undefined == -1

\* part_002:3477-3484  the text 'N/A' of a report row
NotAvailable == -2

RECURSIVE Insert(_, _)
\* v enters the ascending sequence sq behind the values that are not larger
Insert(sq, v) ==
    IF sq = << >> THEN <<v>>
    ELSE IF v < Head(sq) THEN <<v>> \o sq
    ELSE <<Head(sq)>> \o Insert(Tail(sq), v)

RECURSIVE Sort(_)
\* src/index.js:965, part_002:3424  [...data].sort((a, b) => a - b)
Sort(data) == IF data = << >> THEN << >> ELSE Insert(Sort(Tail(data)), Head(data))

RECURSIVE Sum(_)
\* src/index.js:967, part_002:3425  reduce((a, b) => a + b, 0)
Sum(data) == IF data = << >> THEN 0 ELSE Head(data) + Sum(Tail(data))

\* Math.round of the quotient a / b of two naturals, b > 0: halves go up
RoundDiv(a, b) == (2 * a + b) \div (2 * b)

\* variant of PercentileIndex: the rank is rounded up
PercentileIndexCeil(count, rank) == (count * rank + 99) \div 100

\* src/index.js:970-971, part_002:3434-3437  Math.floor(sorted.length * 0.5):
\* for the lengths of the model the double product has the floor of the exact one
PercentileIndex(count, rank) == (count * rank) \div 100

\* sorted[i] of JavaScript: undefined beyond the end
At(sorted, i) == IF i < Len(sorted) THEN sorted[i + 1] ELSE Undefined

Percentile(sorted, rank) == At(sorted, PercentileIndex(Len(sorted), rank))

\* part_002:3442-3444  Math.round(Math.sqrt(variance)), the variance being
\* (n * sum of squares - sum^2) / n^2: the r with (r - 1/2)^2 <= variance < (r + 1/2)^2
StdDev(data) ==
    LET n == Len(data)
        s == n * Sum([i \in 1..n |-> data[i] * data[i]]) - Sum(data) * Sum(data)
    IN  CHOOSE r \in 0..Sum(data) :
            /\ (r = 0 \/ (2 * r - 1) * (2 * r - 1) * n * n <= 4 * s)
            /\ 4 * s < (2 * r + 1) * (2 * r + 1) * n * n

\* part_002:3438  (successful / iterations * 100).toFixed(2), in hundredths of a percent
SuccessRate(successful, iterations) == RoundDiv(successful * 10000, iterations)

StatisticsRecord(total, ok, failed, avg, min, max, p50, p90, p95, p99, rate, dev) ==
    [total_requests |-> total, successful_requests |-> ok, failed_requests |-> failed,
     avg |-> avg, min |-> min, max |-> max, p50 |-> p50, p90 |-> p90, p95 |-> p95,
     p99 |-> p99, success_rate |-> rate, std_dev |-> dev]

\* part_002:3351  statistics: {}
EmptyStatistics ==
    StatisticsRecord(Undefined, Undefined, Undefined, Undefined, Undefined, Undefined,
                     Undefined, Undefined, Undefined, Undefined, Undefined, Undefined)

\* part_002:3422-3445
Statistics(times, errs, iterations) ==
    IF Len(times) > 0
    THEN LET sorted == Sort(times) IN
         StatisticsRecord(iterations, Len(times), Len(errs),
                          RoundDiv(Sum(sorted), Len(sorted)),
                          At(sorted, 0), At(sorted, Len(sorted) - 1),
                          Percentile(sorted, 50), Percentile(sorted, 90),
                          Percentile(sorted, 95), Percentile(sorted, 99),
                          SuccessRate(Len(times), iterations), StdDev(sorted))
    ELSE EmptyStatistics

\* src/index.js:963-973  an object with the members avg, min, max, p50, p95
calculateStats(data) ==
    IF Len(data) = 0
    THEN StatisticsRecord(Undefined, Undefined, Undefined, 0, 0, 0, 0, Undefined, 0,
                          Undefined, Undefined, Undefined)
    ELSE LET sorted == Sort(data) IN
         StatisticsRecord(Undefined, Undefined, Undefined,
                          RoundDiv(Sum(data), Len(data)),
                          At(sorted, 0), At(sorted, Len(sorted) - 1),
                          Percentile(sorted, 50), Undefined, Percentile(sorted, 95),
                          Undefined, Undefined, Undefined)

\* part_002:3469-3484  `${stats.min || 'N/A'}`: a member that is undefined
\* or 0 is shown as the alternative
Or(v, alternative) == IF v = Undefined \/ v = 0 THEN alternative ELSE v

\* part_002:3468-3484  the statistics rows of the report of benchmarkSingleTool
ReportRows(stats, iterations) ==
    StatisticsRecord(Or(stats.total_requests, iterations),
                     Or(stats.successful_requests, 0), Or(stats.failed_requests, 0),
                     Or(stats.avg, NotAvailable), Or(stats.min, NotAvailable),
                     Or(stats.max, NotAvailable), Or(stats.p50, NotAvailable),
                     Or(stats.p90, NotAvailable), Or(stats.p95, NotAvailable),
                     Or(stats.p99, NotAvailable), Or(stats.success_rate, 0),
                     Or(stats.std_dev, NotAvailable))

\* the arguments of an operation: test_cases is the tool_name of every case
Args(cases, par, stop, iter, conc, warm) ==
    [test_cases |-> cases, parallel |-> par, stop_on_error |-> stop,
     iterations |-> iter, concurrent_requests |-> conc, warmup_iterations |-> warm]

NoArgs == Args(<< >>, FALSE, FALSE, 0, 1, 0)

\* a client that no operation of MCPTester drives
NoOperation ==
    /\ operation = "none"
    /\ args = NoArgs
    /\ pc = "idle"
    /\ index = 0
    /\ toolNames = << >>
    /\ promises = << >>
    /\ results = << >>
    /\ execution_times = << >>
    /\ errors = << >>
    /\ statistics = EmptyStatistics
    /\ exit = "running"
    /\ resources = << >>
    /\ prompts = << >>
    /\ elapsed = << >>

\* src/index.js:103-113
Init ==
    /\ process = "null"
    /\ messageBuffer = NoText
    /\ pendingRequests = << >>
    /\ nextId = 1
    /\ initialized = FALSE
    /\ calls = << >>
    /\ handshake = NoCall
    /\ outcome = << >>
    /\ timer = << >>
    /\ notifications = 0
    /\ sent = << >>
    /\ stdout = << >>
    /\ received = NoText
    /\ handled = << >>
    /\ raised = FALSE
    /\ ev = Event("new", NoId)
    /\ NoOperation

(***************************************************************************)
(* Map operations on pendingRequests (a function from ids to calls).       *)
(***************************************************************************)
MapSet(map, k, v) == [x \in (DOMAIN map) \cup {k} |-> IF x = k THEN v ELSE map[x]]
\* variant of MapDelete: the entry stays
MapKeep(map, k) == map

MapDelete(map, k) == [x \in (DOMAIN map) \ {k} |-> map[x]]
MapHas(map, k) == k \in DOMAIN map

MinOf(S) == CHOOSE x \in S : \A y \in S : x <= y

MaxOf(S) == CHOOSE x \in S : \A y \in S : x >= y

\* variant of MapGet: assumes replies arrive in request order
MapGetOldest(map, k) ==
    IF DOMAIN map = {} THEN NoCall ELSE map[MinOf(DOMAIN map)]

\* variant of MapGet: an unknown id falls back to the latest request
MapGetOrLatest(map, k) ==
    IF k \in DOMAIN map THEN map[k]
    ELSE IF DOMAIN map = {} THEN NoCall ELSE map[MaxOf(DOMAIN map)]

\* src/index.js:174  this.pendingRequests.get(message.id)
MapGet(map, k) == IF k \in DOMAIN map THEN map[k] ELSE NoCall

\* a promise is settled once: later resolve/reject calls change nothing
Settle(out, c, v) ==
    IF out[c].state = "pending" THEN [out EXCEPT ![c] = v] ELSE out

(***************************************************************************)
(* handleMessage (src/index.js:171-189), as a function of the part of the  *)
(* client it reads and writes.                                             *)
(***************************************************************************)
ClientPart(pend, out, notes) ==
    [pendingRequests |-> pend, outcome |-> out, notifications |-> notes]

\* variant of ErrorTruthy: ignores the error member of a response
ErrorNever(e) == FALSE

\* src/index.js:176  if (message.error): null and undefined are falsy
ErrorTruthy(e) == e.kind = "object"

\* src/index.js:177  message.error.message || 'Unknown error'
ErrorText(e) == IF e.message # NoText THEN e.message ELSE UnknownError

\* src/index.js:186  !message.id : undefined and 0 are falsy
IdFalsy(i) == i = NoId \/ i = 0

\* src/index.js:173-183  the response branch
HandleResponse(st, m) ==
    LET pending == MapGet(st.pendingRequests, m.id) IN
    IF m.id # NoId /\ pending # NoCall
    THEN [st EXCEPT
            !.outcome = Settle(@, pending,
                               IF ErrorTruthy(m.error)
                               THEN Rejected(ErrorText(m.error))
                               ELSE Resolved(m.result)),
            !.pendingRequests = MapDelete(@, m.id)]
    ELSE st

\* variant of HandleNotification: a message without an id is dropped
DropNotification(st, m) == st

\* src/index.js:185-188  the notification branch
HandleNotification(st, m) ==
    IF m.method /\ IdFalsy(m.id)
    THEN [st EXCEPT !.notifications = @ + 1]
    ELSE st

\* src/index.js:171-189
handleMessage(st, m) == HandleNotification(HandleResponse(st, m), m)

\* src/index.js:221-227  initialize() resumes when its request resolved
InitializedAfter(out) ==
    \/ initialized
    \/ /\ handshake # NoCall
       /\ outcome[handshake].state = "pending"
       /\ out[handshake].state = "resolved"

(***************************************************************************)
(* sendRequest (src/index.js:191-218).                                     *)
(***************************************************************************)
\* variant of NextIdAfter: the id is taken from the number of outstanding requests
NextIdReuse(id) == Cardinality(DOMAIN pendingRequests) + 1

\* src/index.js:193  this.nextId++
NextIdAfter(id) == id + 1

\* variant of TimeoutDelete: the timer rejects without removing the entry
TimeoutLeak(map, id) == map

\* variant of TimeoutDelete: the timer of one request empties the map
TimeoutClear(map, id) == << >>

\* src/index.js:213  this.pendingRequests.delete(id)
TimeoutDelete(map, id) == MapDelete(map, id)

\* variant of WriteCatch: the entry of a request that could not be written stays
WriteCatchLeak(map, id) == map

\* src/index.js:206  catch (error) { this.pendingRequests.delete(id); ... }
WriteCatch(map, id) == MapDelete(map, id)

sendRequest(method) ==
    LET id == nextId
        c == Len(calls) + 1
        registered == MapSet(pendingRequests, id, c)
    IN
    /\ nextId' = NextIdAfter(nextId)
    /\ calls' = Append(calls, id)
    /\ IF process = "child"
       THEN \* src/index.js:201-204  registered, then written
            /\ pendingRequests' = registered
            /\ outcome' = Append(outcome, Pending)
       ELSE \* src/index.js:205-208  the write throws: removed and rejected
            /\ pendingRequests' = WriteCatch(registered, id)
            /\ outcome' = Append(outcome, Rejected(WriteError))
    /\ timer' = Append(timer, "armed")
    /\ ev' = Event(method, NoId)
    /\ UNCHANGED <<process, initialized, notifications>>

\* src/index.js:211-216  the timer of call c expires
TimeoutFires(c) ==
    /\ c \in 1..Len(calls)
    /\ timer[c] = "armed"
    /\ timer' = [timer EXCEPT ![c] = "fired"]
    /\ IF MapHas(pendingRequests, calls[c])
       THEN /\ pendingRequests' = TimeoutDelete(pendingRequests, calls[c])
            /\ outcome' = Settle(outcome, c, Rejected(TimeoutError))
       ELSE UNCHANGED <<pendingRequests, outcome>>
    /\ ev' = Event("timeout", NoId)
    /\ UNCHANGED <<process, nextId, initialized, calls, handshake, notifications>>
    /\ UNCHANGED transport

(***************************************************************************)
(* The operations of the client.                                           *)
(***************************************************************************)
\* src/index.js:115-153
connect ==
    /\ process' = "child"
    /\ ev' = Event("connect", NoId)
    /\ UNCHANGED <<pendingRequests, nextId, initialized, calls, handshake, outcome, timer,
                   notifications>>
    /\ UNCHANGED transport

\* src/index.js:220-240  every caller issues initialize() once, as the first
\* request of its client (src/index.js:539-545, 692-693, 1656-1676)
initialize ==
    /\ Len(calls) < MaxCalls
    /\ Len(calls) = 0
    /\ sendRequest("initialize")
    /\ handshake' = Len(calls) + 1
    /\ UNCHANGED transport

\* src/index.js:242-246
listTools ==
    /\ Len(calls) < MaxCalls
    /\ sendRequest("tools/list")
    /\ UNCHANGED handshake
    /\ UNCHANGED transport

\* src/index.js:248-253
callTool ==
    /\ Len(calls) < MaxCalls
    /\ sendRequest("tools/call")
    /\ UNCHANGED handshake
    /\ UNCHANGED transport

\* src/index.js:255-264
listResources ==
    /\ Len(calls) < MaxCalls
    /\ sendRequest("resources/list")
    /\ UNCHANGED handshake
    /\ UNCHANGED transport

\* src/index.js:266-275
listPrompts ==
    /\ Len(calls) < MaxCalls
    /\ sendRequest("prompts/list")
    /\ UNCHANGED handshake
    /\ UNCHANGED transport

\* src/index.js:282  this.pendingRequests.clear(): no resolve, no reject
DisconnectOutcome(out) == out

\* src/index.js:277-283
disconnect ==
    /\ process' = "null"
    /\ pendingRequests' = << >>
    /\ outcome' = DisconnectOutcome(outcome)
    /\ ev' = Event("disconnect", NoId)
    /\ UNCHANGED <<nextId, initialized, calls, handshake, timer, notifications>>
    /\ UNCHANGED transport

\* src/index.js:159-163  the parsed message m of one line reaches
\* handleMessage (in Spec the framing of the line is abstracted)
Deliver(m) ==
    LET st == handleMessage(ClientPart(pendingRequests, outcome, 0), m) IN
    /\ pendingRequests' = st.pendingRequests
    /\ outcome' = st.outcome
    /\ notifications' = st.notifications
    /\ initialized' = InitializedAfter(st.outcome)
    /\ ev' = Event("message", m.id)
    /\ UNCHANGED <<process, nextId, calls, handshake, timer>>
    /\ UNCHANGED transport

StdoutMessage == \E m \in Messages : Deliver(m)

Timeout == \E c \in 1..MaxCalls : TimeoutFires(c)

Next ==
    \/ connect /\ UNCHANGED tester
    \/ initialize /\ UNCHANGED tester
    \/ listTools /\ UNCHANGED tester
    \/ callTool /\ UNCHANGED tester
    \/ listResources /\ UNCHANGED tester
    \/ listPrompts /\ UNCHANGED tester
    \/ StdoutMessage /\ UNCHANGED tester
    \/ Timeout /\ UNCHANGED tester
    \/ disconnect /\ UNCHANGED tester

Spec == Init /\ [][Next]_vars

\* the event loop runs every timer that was set
FairSpec == Spec /\ \A c \in 1..MaxCalls : WF_vars(TimeoutFires(c) /\ UNCHANGED tester)

(***************************************************************************)
(* The transport: bytes of the child's stdout, decoding, framing, parsing. *)
(*                                                                         *)
(* Bytes: the ASCII bytes "{", "}", "1", "n", " " and "LF" (line feed),    *)
(* and "C3" "A9", the two bytes of the UTF-8 encoding of U+00E9.           *)
(* Characters: the ASCII characters, "E9" (U+00E9) and "FFFD" (the         *)
(* replacement character).                                                 *)
(*                                                                         *)
(* JSON texts are abbreviated: "{" "1" <characters> "}" is a response      *)
(* object with id 1 whose result is the string of those characters, "{"    *)
(* "}" an object without members, "n" the literal null; a space between    *)
(* tokens is insignificant; anything else is no JSON.                      *)
(***************************************************************************)
RECURSIVE Flatten(_)
Flatten(ss) == IF ss = << >> THEN << >> ELSE Head(ss) \o Flatten(Tail(ss))

\* the fragments the target writes, each with one write
Fragments ==
    { <<"{", "1", "C3", "A9", "}">>,   \* a response to request 1, result "é"
      <<"}">>,                         \* no JSON
      <<"n">>,                         \* JSON, not an object: null
      <<" ">>,
      <<"LF">> }

\* src/index.js:126  data.toString(): the chunk alone is decoded as UTF-8; a
\* byte sequence that is incomplete or invalid in the chunk becomes U+FFFD
RECURSIVE toString(_)
toString(data) ==
    IF data = << >> THEN << >>
    ELSE IF Head(data) = "C3"
         THEN IF Len(data) >= 2 /\ data[2] = "A9"
              THEN <<"E9">> \o toString(SubSeq(data, 3, Len(data)))
              ELSE <<"FFFD">> \o toString(Tail(data))
         ELSE IF Head(data) = "A9"
              THEN <<"FFFD">> \o toString(Tail(data))
              ELSE <<Head(data)>> \o toString(Tail(data))

\* src/index.js:156  split('\n'): the lines of a text, at least one
RECURSIVE SplitLines(_)
SplitLines(text) ==
    IF \A i \in 1..Len(text) : text[i] # "LF"
    THEN <<text>>
    ELSE LET i == CHOOSE j \in 1..Len(text) :
                    text[j] = "LF" /\ \A k \in 1..(j - 1) : text[k] # "LF"
         IN <<SubSeq(text, 1, i - 1)>> \o SplitLines(SubSeq(text, i + 1, Len(text)))

\* src/index.js:160  line.trim()
RECURSIVE trim(_)
trim(line) ==
    IF line = << >> THEN line
    ELSE IF Head(line) = " " THEN trim(Tail(line))
    ELSE IF line[Len(line)] = " " THEN trim(SubSeq(line, 1, Len(line) - 1))
    ELSE line

\* the characters of a text that are not spaces
RECURSIVE Tokens(_)
Tokens(text) ==
    IF text = << >> THEN << >>
    ELSE IF Head(text) = " " THEN Tokens(Tail(text))
    ELSE <<Head(text)>> \o Tokens(Tail(text))

StringChars == {"E9", "FFFD"}

Value(kind, msg) == [kind |-> kind, msg |-> msg]

\* src/index.js:162  JSON.parse of a trimmed line: the value, or kind "throw"
\* for a SyntaxError
JSONparse(text) ==
    LET n == Len(text)
        inner == IF n >= 2 THEN Tokens(SubSeq(text, 2, n - 1)) ELSE << >>
        none == Msg(NoId, FALSE, NoError, NoText)
    IN
    IF text = <<"n">> THEN Value("null", none)
    ELSE IF n >= 2 /\ text[1] = "{" /\ text[n] = "}"
         THEN IF inner = << >> THEN Value("object", none)
              ELSE IF /\ Head(inner) = "1"
                      /\ \A i \in 2..Len(inner) : inner[i] \in StringChars
                   THEN Value("object", Msg(1, FALSE, NoError, Tail(inner)))
                   ELSE Value("throw", none)
         ELSE Value("throw", none)

\* what one run of the data handler carries from line to line
Run(st, values, thrown) == [st |-> st, values |-> values, thrown |-> thrown]

\* variant of CatchAndIgnore: the exception leaves processMessages and the
\* data handler
Propagate(run) == [run EXCEPT !.thrown = TRUE]

\* src/index.js:164-166  catch (e) { }: the line is dropped
CatchAndIgnore(run) == run

\* src/index.js:160-167  one line of the loop
ProcessLine(run, line) ==
    LET v == JSONparse(trim(line)) IN
    IF run.thrown \/ trim(line) = << >> THEN run
    ELSE IF v.kind = "throw" THEN CatchAndIgnore(run)
    ELSE IF v.kind = "null"
         \* handleMessage(null) throws a TypeError inside the same try
         THEN CatchAndIgnore([run EXCEPT !.values = Append(@, v)])
         ELSE [run EXCEPT !.st = handleMessage(@, v.msg), !.values = Append(@, v)]

RECURSIVE ProcessLines(_, _)
ProcessLines(run, lines) ==
    IF lines = << >> THEN run
    ELSE ProcessLines(ProcessLine(run, Head(lines)), Tail(lines))

\* src/index.js:157  lines.pop() || ''
PopLast(lines) == lines[Len(lines)]
AllButLast(lines) == SubSeq(lines, 1, Len(lines) - 1)

\* src/index.js:155-169  the run over the complete lines of a buffer
processMessages(buffer, st) ==
    ProcessLines(Run(st, << >>, FALSE), AllButLast(SplitLines(buffer)))

\* the target writes a fragment to its stdout
TargetWrites ==
    \E f \in Fragments :
        /\ Len(sent) < MaxWrites
        /\ sent' = Append(sent, f)
        /\ stdout' = stdout \o f
        /\ ev' = Event("write", NoId)
        /\ UNCHANGED <<messageBuffer, received, handled, raised>>
        /\ UNCHANGED client

\* src/index.js:125-128  a 'data' event with the next k bytes of stdout
StdoutData ==
    \E k \in 1..Len(stdout) :
        LET data == SubSeq(stdout, 1, k)
            buffer == messageBuffer \o toString(data)
            run == processMessages(buffer, ClientPart(pendingRequests, outcome, 0))
        IN
        /\ stdout' = SubSeq(stdout, k + 1, Len(stdout))
        /\ received' = received \o toString(data)
        /\ messageBuffer' = PopLast(SplitLines(buffer))
        /\ pendingRequests' = run.st.pendingRequests
        /\ outcome' = run.st.outcome
        /\ notifications' = run.st.notifications
        /\ initialized' = InitializedAfter(run.st.outcome)
        /\ handled' = handled \o run.values
        /\ raised' = (raised \/ run.thrown)
        /\ ev' = Event("data", NoId)
        /\ UNCHANGED <<process, nextId, calls, handshake, timer, sent>>

\* a connected client with one request written: connect(), then callTool()
InitFraming ==
    /\ process = "child"
    /\ messageBuffer = NoText
    /\ pendingRequests = [i \in {1} |-> 1]
    /\ nextId = 2
    /\ initialized = FALSE
    /\ calls = <<1>>
    /\ handshake = NoCall
    /\ outcome = <<Pending>>
    /\ timer = <<"armed">>
    /\ notifications = 0
    /\ sent = << >>
    /\ stdout = << >>
    /\ received = NoText
    /\ handled = << >>
    /\ raised = FALSE
    /\ ev = Event("tools/call", NoId)
    /\ NoOperation

NextFraming ==
    \/ TargetWrites /\ UNCHANGED tester
    \/ StdoutData /\ UNCHANGED tester

SpecFraming == InitFraming /\ [][NextFraming]_vars

\* the bytes the data handler has received so far
Consumed == SubSeq(Flatten(sent), 1, Len(Flatten(sent)) - Len(stdout))

(***************************************************************************)
(* Properties of the session (Spec, FairSpec).                             *)
(***************************************************************************)
Calls == 1..Len(calls)

\* the payload a response carries for its caller: its error, else its result
SettledBy(m) ==
    IF m.error.kind = "object"
    THEN Rejected(IF m.error.message = NoText THEN UnknownError ELSE m.error.message)
    ELSE Resolved(m.result)

\* C1: for calls outstanding together and responses delivered in any order,
\* a response changes the outcome of no call but the one whose request
\* carries the response's id, and that call gets the response's own payload.
C1_ResponseSettlesOwnCall ==
    [][(ev'.op = "message" /\ outcome' # outcome) =>
            \A m \in Responses : (m.id = ev'.id /\ Deliver(m)) =>
                \A c \in Calls : outcome'[c] # outcome[c] =>
                    /\ calls[c] = m.id
                    /\ outcome'[c] = SettledBy(m)]_vars

\* C1 witness: two calls were outstanding together; the reply to the second
\* came first, the reply to the first has just been handled, and each call
\* holds the result of its own reply.
C1_Witness ==
    /\ Len(calls) = 2
    /\ ev = Event("message", calls[1])
    /\ outcome[1] = Resolved(<<"b">>)
    /\ outcome[2] = Resolved(<<"a">>)
    /\ timer = <<"armed", "armed">>

\* C2: after disconnect the pending map is empty and every caller that was
\* pending has been rejected, so no call is left unsettled.
C2_CloseRejectsPending ==
    ev.op = "disconnect" =>
        /\ pendingRequests = << >>
        /\ \A c \in Calls : outcome[c].state # "pending"

\* C3: every call that was issued is eventually settled.
C3_EveryCallSettles ==
    \A c \in 1..MaxCalls :
        (Len(calls) >= c) ~> (Len(calls) >= c /\ outcome[c].state # "pending")

\* C4: when the timer of a call that is still pending expires, the call is
\* rejected with the timeout error and exactly its id leaves the pending map;
\* issuing a call adds exactly its id: the map is back at what it was before
\* the call.
C4_TimeoutRejectsAndRemoves ==
    [][/\ \A c \in Calls :
            (/\ ev'.op = "timeout"
             /\ timer[c] = "armed" /\ timer'[c] = "fired"
             /\ calls[c] \in DOMAIN pendingRequests)
            => /\ outcome'[c] = Rejected(TimeoutError)
               /\ DOMAIN pendingRequests' = DOMAIN pendingRequests \ {calls[c]}
               /\ \A d \in Calls \ {c} : outcome'[d] = outcome[d]
       /\ (Len(calls') = Len(calls) + 1 /\ process = "child")
            => /\ DOMAIN pendingRequests' = DOMAIN pendingRequests \cup {calls'[Len(calls')]}
               /\ calls'[Len(calls')] \notin DOMAIN pendingRequests]_vars

\* C4 witness: a call without reply has just been rejected by its timer while
\* another call is still pending.
C4_Witness ==
    /\ ev.op = "timeout"
    /\ \E c \in Calls :
        /\ outcome[c] = Rejected(TimeoutError)
        /\ calls[c] \notin DOMAIN pendingRequests
    /\ \E d \in Calls : calls[d] \in DOMAIN pendingRequests

\* C5: a message whose id is not in the pending map (its call timed out, was
\* settled, or never existed) settles nothing and changes neither the pending
\* map nor any call.
C5_LateResponseIsNoOp ==
    [][(ev'.op = "message" /\ ev'.id \notin DOMAIN pendingRequests)
            => UNCHANGED <<pendingRequests, outcome, nextId, calls, timer, process,
                           initialized>>]_vars

\* C5 witness: the reply to a call that had timed out has just arrived while
\* another call is outstanding.
C5_Witness ==
    /\ ev.op = "message"
    /\ \E c \in Calls : calls[c] = ev.id /\ outcome[c] = Rejected(TimeoutError)
    /\ \E d \in Calls : calls[d] \in DOMAIN pendingRequests /\ outcome[d] = Pending

\* C6: the ids are 1, 2, 3, ... in order of issue, the next id is above all
\* ids used, and every id in the pending map is below the next id.
C6_IdsIncrease ==
    /\ \A c \in Calls : calls[c] = c
    /\ nextId = Len(calls) + 1
    /\ \A i \in DOMAIN pendingRequests : i < nextId

\* C6 witness: a request was issued after a failed write and a timeout.
C6_Witness ==
    /\ Len(calls) = MaxCalls
    /\ \E c \in Calls : outcome[c] = Rejected(WriteError)
    /\ \E c \in Calls : outcome[c] = Rejected(TimeoutError)

\* C7: a tools/call, tools/list, resources/list or prompts/list issued before
\* the handshake succeeded fails at once.
C7_NotReadyBeforeHandshake ==
    (ev.op \in Methods \ {"initialize"} /\ ~initialized)
        => outcome[Len(calls)].state = "rejected"

\* C8: the response correlated to a pending call rejects the call with the
\* message of its error object ('Unknown error' when it has none) and
\* otherwise resolves it with its result (an error member that is null is no
\* error); either way the id leaves the pending map.
C8_ErrorRejectsResultResolves ==
    [][(ev'.op = "message" /\ ev'.id \in DOMAIN pendingRequests) =>
            \A m \in Responses : (m.id = ev'.id /\ Deliver(m)) =>
                LET c == pendingRequests[m.id] IN
                /\ outcome[c] = Pending
                /\ outcome'[c] = IF m.error.kind = "object"
                                 THEN Rejected(IF m.error.message = NoText
                                               THEN UnknownError
                                               ELSE m.error.message)
                                 ELSE Resolved(m.result)
                /\ m.id \notin DOMAIN pendingRequests']_vars

\* C8 witness: one call was rejected with the message of a remote error,
\* another was resolved with a result.
C8_Witness ==
    /\ ev.op = "message"
    /\ \E c \in Calls : outcome[c] = Rejected(<<"boom">>) /\ calls[c] \notin DOMAIN pendingRequests
    /\ \E d \in Calls : outcome[d] = Resolved(<<"b">>) /\ calls[d] \notin DOMAIN pendingRequests

(***************************************************************************)
(* Properties of the transport (SpecFraming).                              *)
(***************************************************************************)
\* the client part of InitFraming
FramingStart == ClientPart([i \in {1} |-> 1], <<Pending>>, 0)

\* the values handed to handleMessage when the bytes arrive in one read
OneRead(bytes) == processMessages(toString(bytes), FramingStart).values

\* C9: however the stream is cut into reads, the values handed to
\* handleMessage are those of one read of the whole stream.
C9_ChunkingIndependent == handled = OneRead(Consumed)

\* the complete lines of the text received so far
CompleteLines == AllButLast(SplitLines(received))

\* a line that is blank, or that is no JSON, or whose JSON is no object
Blank(line) == trim(line) = << >>
Malformed(line) == ~Blank(line) /\ JSONparse(trim(line)).kind \in {"throw", "null"}
IsMessage(line) == ~Blank(line) /\ JSONparse(trim(line)).kind = "object"
IsJSON(line) == ~Blank(line) /\ JSONparse(trim(line)).kind # "throw"

\* the client after the messages of the lines, one after the other
RECURSIVE AfterMessages(_, _)
AfterMessages(st, lines) ==
    IF lines = << >> THEN st
    ELSE AfterMessages(handleMessage(st, JSONparse(trim(Head(lines))).msg), Tail(lines))

\* C10: no line makes the data handler raise; the lines that are no
\* well-formed message leave no trace: the values parsed are those of the
\* JSON lines, in order, and the pending map and the calls are what the
\* messages alone, in order, make of them.
C10_MalformedLinesDropped ==
    LET json == SelectSeq(CompleteLines, IsJSON)
        st == AfterMessages(FramingStart, SelectSeq(CompleteLines, IsMessage))
    IN
    /\ ~raised
    /\ Len(handled) = Len(json)
    /\ \A i \in 1..Len(json) : handled[i] = JSONparse(trim(json[i]))
    /\ pendingRequests = st.pendingRequests
    /\ outcome = st.outcome
    /\ messageBuffer = PopLast(SplitLines(received))

\* C10 witness: a malformed line came first, the response to request 1 after
\* it, and the response has resolved the call.
C10_Witness ==
    /\ \E i, j \in 1..Len(CompleteLines) :
        /\ i < j
        /\ Malformed(CompleteLines[i])
        /\ IsMessage(CompleteLines[j])
        /\ JSONparse(trim(CompleteLines[j])).msg.id = 1
    /\ outcome[1].state = "resolved"
    /\ 1 \notin DOMAIN pendingRequests

(***************************************************************************)
(* MCPTester: the operations that open a session on a client and drive it  *)
(* (src/unnamed/part_002): batchTestTools, generateTestReport and          *)
(* benchmarkSingleTool.  SpecTester runs one operation on one client, from *)
(* its first statement to its return or throw; the target answers the      *)
(* outstanding requests in any order, with a result or an error object, or *)
(* lets their timers expire.  The synchronous stretches of an operation    *)
(* (from one await to the next) are not interleaved with inbound events.   *)
(***************************************************************************)
\* number of test cases of a batch, of tools of a report
MaxCases == 3
\* iterations, concurrent_requests and warmup_iterations of a benchmark
MaxIterations == 3
MaxConcurrent == 2
MaxWarmup == 1
\* the largest Date.now() difference of a measured call
MaxElapsed == 1

Operations == {"batchTestTools", "generateTestReport", "benchmarkSingleTool"}

\* tool names a caller may pass; the target of the model implements "a" only
ToolNames == {"a", "b"}
TargetTools == <<"a">>

Elapsed == 0..MaxElapsed

SeqsUpTo(S, n) == UNION { [1..k -> S] : k \in 1..n }

\* part_002:3120-3128, 3321-3336, 2286-2295  the arguments that pass validation
ArgsOf(op) ==
    CASE op = "batchTestTools" ->
            { Args(cs, par, stop, 0, 1, 0) :
                cs \in SeqsUpTo(ToolNames, MaxCases), par \in BOOLEAN, stop \in BOOLEAN }
      [] op = "generateTestReport" ->
            { Args(cs, FALSE, FALSE, 0, 1, 0) : cs \in SeqsUpTo({"a"}, MaxCases) }
      [] op = "benchmarkSingleTool" ->
            { Args(<<t>>, FALSE, FALSE, it, conc, warm) :
                t \in ToolNames, it \in 0..MaxIterations, conc \in 1..MaxConcurrent,
                warm \in 0..MaxWarmup }

\* part_002:3135-3144, 3343-3352, 2334-2341  the operation is entered with a
\* new client and empty result lists
InitTester ==
    /\ process = "null"
    /\ messageBuffer = NoText
    /\ pendingRequests = << >>
    /\ nextId = 1
    /\ initialized = FALSE
    /\ calls = << >>
    /\ handshake = NoCall
    /\ outcome = << >>
    /\ timer = << >>
    /\ notifications = 0
    /\ sent = << >>
    /\ stdout = << >>
    /\ received = NoText
    /\ handled = << >>
    /\ raised = FALSE
    /\ ev = Event("new", NoId)
    /\ operation \in Operations
    /\ args \in ArgsOf(operation)
    /\ pc = "start"
    /\ index = 0
    /\ toolNames = << >>
    /\ promises = << >>
    /\ results = << >>
    /\ execution_times = << >>
    /\ errors = << >>
    /\ statistics = EmptyStatistics
    /\ exit = "running"
    /\ resources = << >>
    /\ prompts = << >>
    /\ elapsed = << >>

\* variant of Includes: every name passes the pre-check
IncludesAny(names, name) == TRUE

\* Array.prototype.includes on the discovered names
Includes(names, name) == \E k \in 1..Len(names) : names[k] = name

\* part_002:3165, 3203  `工具 ${tool_name} 不存在`
UnknownTool(name) == <<"tool", name, "does not exist">>

\* part_002:3173-3180, 3217-3224
Succeeded(name) == [tool_name |-> name, success |-> TRUE, error |-> NoText]
\* part_002:3161-3167, 3182-3188, 3199-3205, 3226-3232
Failed(name, message) == [tool_name |-> name, success |-> FALSE, error |-> message]

\* the result record of a case from the settled promise of its callTool
ResultOf(name, out) ==
    IF out.state = "resolved" THEN Succeeded(name) ELSE Failed(name, out.value)

\* a request of the operation: sendRequest, which writes it to the child
Call(method) ==
    /\ sendRequest(method)
    /\ UNCHANGED handshake
    /\ UNCHANGED transport

\* the call a request issued now gets
ThisCall == Len(calls) + 1

\* a step of the operation that calls nothing on the client
Local(step) ==
    /\ ev' = Event(step, NoId)
    /\ UNCHANGED client
    /\ UNCHANGED transport

\* the promise of call c is settled (a case that was not called has none)
Settled(c) == IF c = NoCall THEN TRUE ELSE outcome[c].state # "pending"

\* variant of PromiseAllSettled: one settled promise is enough (Promise.race)
PromiseAnySettled(ps) == \E i \in 1..Len(ps) : Settled(ps[i])

\* Promise.all over promises that never reject: fulfilled when all are
PromiseAllSettled(ps) == \A i \in 1..Len(ps) : Settled(ps[i])

(***************************************************************************)
(* Leaving an operation.                                                   *)
(***************************************************************************)
\* part_002:3242  testResults.results.filter(r => r.success).length
Successes(res) == Cardinality({ i \in 1..Len(res) : res[i].success })

\* variant of Failures: the cases that did not succeed, of all the cases given
FailuresOfTotal(res) == Len(args.test_cases) - Successes(res)

\* part_002:3243  testResults.results.filter(r => !r.success).length
Failures(res) == Cardinality({ i \in 1..Len(res) : ~res[i].success })

\* part_002:3136-3142, 3241-3244  total_cases, successful and failed of testResults
BatchCounts(res) ==
    [total_cases |-> Len(args.test_cases), successful |-> Successes(res),
     failed |-> Failures(res)]

\* part_002:3241-3250, 3422-3451  the try block ends: finally disconnects, the
\* report is returned;  part_002:2379  generateTestReport disconnects as the
\* last statement of its try block
Return(res) ==
    /\ disconnect
    /\ pc' = "done"
    /\ exit' = "returned"
    /\ results' = res
    /\ promises' = << >>
    /\ statistics' = IF operation = "benchmarkSingleTool"
                     THEN Statistics(execution_times', errors', args.iterations)
                     ELSE IF operation = "batchTestTools"
                     THEN BatchCounts(res)
                     ELSE statistics

\* an exception reaches the catch clause of the operation.
\* part_002:3246-3250, 3447-3451  rethrown, finally disconnects;
\* part_002:2381-2383  generateTestReport logs it and goes on to its report:
\* client.disconnect() of line 2379 was skipped
Throw ==
    /\ pc' = "done"
    /\ promises' = << >>
    /\ IF operation = "generateTestReport"
       THEN /\ exit' = "returned"
            /\ Local("catch")
       ELSE /\ exit' = "thrown"
            /\ disconnect
    /\ UNCHANGED <<elapsed, resources, prompts, operation, args, index, results, execution_times, errors, statistics>>

(***************************************************************************)
(* The serial loop over the cases (batchTestTools, generateTestReport).    *)
(***************************************************************************)
\* variant of StopOnError: the loop never breaks
StopNever(stop) == FALSE

\* part_002:3208, 3234  if (stop_on_error) break
StopOnError(stop) == stop

RECURSIVE SerialSkip(_, _, _)
\* part_002:3195-3212  from case i on, the cases whose tool is unknown are
\* recorded as failed, up to the first case to call, a break, or the end
SerialSkip(i, res, names) ==
    IF i > Len(args.test_cases)
    THEN [index |-> i, results |-> res, stop |-> TRUE]
    ELSE IF Includes(names, args.test_cases[i])
    THEN [index |-> i, results |-> res, stop |-> FALSE]
    ELSE LET failed == Append(res, Failed(args.test_cases[i],
                                           UnknownTool(args.test_cases[i])))
         IN  IF StopOnError(args.stop_on_error)
             THEN [index |-> i, results |-> failed, stop |-> TRUE]
             ELSE SerialSkip(i + 1, failed, names)

\* part_002:2357  generateTestReport calls every tool of its list
ReportNext(i, res) ==
    [index |-> i, results |-> res, stop |-> i > Len(args.test_cases)]

\* the loop runs from case i to its next await, or to its end
SerialContinue(i, res, names) ==
    LET adv == IF operation = "generateTestReport"
               THEN ReportNext(i, res)
               ELSE SerialSkip(i, res, names)
    IN
    /\ index' = adv.index
    /\ IF adv.stop
       THEN Return(adv.results)
       ELSE /\ Call("tools/call")
            /\ pc' = "call"
            /\ promises' = <<ThisCall>>
            /\ results' = adv.results
            /\ UNCHANGED <<exit, statistics>>

\* variant of CaseEscapes: the rejection of a case leaves the loop
CaseEscapesRejected(out) == out.state = "rejected"

\* part_002:3214-3237, 3170-3189, 2359-2376  the try/catch around callTool: no
\* rejection of a case leaves it
CaseEscapes(out) == FALSE

\* part_002:3216-3237, 2361-2376  the callTool of case `index` settled
CaseSettles ==
    /\ pc = "call"
    /\ Settled(promises[1])
    /\ LET out == outcome[promises[1]]
           res == Append(results, ResultOf(args.test_cases[index], out))
       IN
       IF CaseEscapes(out)
       THEN Throw /\ UNCHANGED toolNames
       ELSE /\ UNCHANGED <<elapsed, resources, prompts, operation, args, toolNames, execution_times, errors>>
            /\ IF /\ operation = "batchTestTools"
                  /\ out.state = "rejected"
                  /\ StopOnError(args.stop_on_error)
               THEN Return(res) /\ UNCHANGED index
               ELSE SerialContinue(index + 1, res, toolNames)

(***************************************************************************)
(* The parallel branch of batchTestTools (part_002:3155-3192).             *)
(***************************************************************************)
\* part_002:3157-3190  test_cases.map runs the async function of case
\* `index` up to its await: the pre-check, then callTool writes the request
ParallelDispatch ==
    /\ pc = "dispatch"
    /\ IF Includes(toolNames, args.test_cases[index])
       THEN /\ Call("tools/call")
            /\ promises' = Append(promises, ThisCall)
       ELSE /\ Local("map")
            /\ promises' = Append(promises, NoCall)
    /\ index' = index + 1
    /\ pc' = IF index = Len(args.test_cases) THEN "all" ELSE "dispatch"
    /\ UNCHANGED <<elapsed, resources, prompts, operation, args, toolNames, results, execution_times, errors, statistics,
                   exit>>

\* the result the async function of case i returned
CaseResult(i) ==
    IF promises[i] = NoCall
    THEN Failed(args.test_cases[i], UnknownTool(args.test_cases[i]))
    ELSE ResultOf(args.test_cases[i], outcome[promises[i]])

RECURSIVE Select(_, _, _)
\* the results of the cases from i on that were called (or were not)
Select(i, n, called) ==
    IF i > n THEN << >>
    ELSE (IF (promises[i] # NoCall) = called THEN <<CaseResult(i)>> ELSE << >>)
            \o Select(i + 1, n, called)

\* variant of PromiseAllResults: the results in the order the promises were
\* fulfilled in, those of the pre-check first
PromiseAllFulfilled(n) == Select(1, n, FALSE) \o Select(1, n, TRUE)

\* part_002:3192  await Promise.all(promises): the values in the order of
\* the promises
PromiseAllResults(n) == [i \in 1..n |-> CaseResult(i)]

\* part_002:3192, 3241-3250  every promise of the map is fulfilled
PromiseAll ==
    /\ pc = "all"
    /\ PromiseAllSettled(promises)
    /\ UNCHANGED <<elapsed, resources, prompts, operation, args, index, toolNames, execution_times, errors>>
    /\ Return(PromiseAllResults(Len(promises)))

(***************************************************************************)
(* The benchmark of one tool (part_002:3320-3451).                         *)
(***************************************************************************)
\* part_002:3382  Math.ceil(iterations / concurrent_requests)
Batches == (args.iterations + args.concurrent_requests - 1) \div args.concurrent_requests

\* variant of BatchSize: every batch is a full one
BatchFull(batch) == args.concurrent_requests

\* part_002:3385  Math.min(concurrent_requests, iterations - batch * concurrent_requests)
BatchSize(batch) ==
    IF args.concurrent_requests <= args.iterations - batch * args.concurrent_requests
    THEN args.concurrent_requests
    ELSE args.iterations - batch * args.concurrent_requests

\* part_002:3379-3420  the measurement phase begins: the first batch is to be
\* dispatched, or the first sequential call is made; with no batch and no
\* iteration neither loop is entered and the statistics follow at once
StartMeasurement ==
    IF args.concurrent_requests > 1
    THEN IF 0 < Batches
         THEN /\ Local("batch")
              /\ pc' = "batchDispatch"
              /\ index' = 0
              /\ promises' = << >>
              /\ UNCHANGED <<results, statistics, exit>>
         ELSE Return(results) /\ index' = 0
    ELSE IF 0 < args.iterations
         THEN /\ Call("tools/call")
              /\ pc' = "measure"
              /\ index' = 1
              /\ promises' = <<ThisCall>>
              /\ UNCHANGED <<results, statistics, exit>>
         ELSE Return(results) /\ index' = 0

\* part_002:3369-3375  the loop of the warm-up at iteration i (from 0)
WarmupContinue(i) ==
    IF i < args.warmup_iterations
    THEN /\ Call("tools/call")
         /\ pc' = "warmup"
         /\ index' = i
         /\ promises' = <<ThisCall>>
         /\ UNCHANGED <<results, statistics, exit>>
    ELSE StartMeasurement

\* variant of WarmupCatch: a rejected warm-up call is recorded as an error
WarmupRecord(errs, out) ==
    IF out.state = "rejected" THEN Append(errs, out.value) ELSE errs

\* part_002:3372-3374  catch (e) { }: nothing is recorded
WarmupCatch(errs, out) == errs

\* part_002:3371-3375  the warm-up call of iteration `index` settled
WarmupSettles ==
    /\ pc = "warmup"
    /\ Settled(promises[1])
    /\ errors' = WarmupCatch(errors, outcome[promises[1]])
    /\ UNCHANGED <<elapsed, resources, prompts, operation, args, toolNames, execution_times>>
    /\ WarmupContinue(index + 1)

\* variant of RecordTime: the time of a failed call is a sample too
RecordTimeAlways(times, out, t) == Append(times, t)

\* part_002:3415, 3393, 3403-3407  the elapsed time of a fulfilled call
RecordTime(times, out, t) == IF out.state = "resolved" THEN Append(times, t) ELSE times

\* part_002:3417, 3395  the message of a rejected call
RecordError(errs, out) == IF out.state = "rejected" THEN Append(errs, out.value) ELSE errs

\* part_002:3411-3419  the sequential call of iteration `index` settled
MeasureSettles ==
    /\ pc = "measure"
    /\ Settled(promises[1])
    /\ \E t \in Elapsed :
         execution_times' = RecordTime(execution_times, outcome[promises[1]], t)
    /\ errors' = RecordError(errors, outcome[promises[1]])
    /\ IF index < args.iterations
       THEN /\ Call("tools/call")
            /\ index' = index + 1
            /\ promises' = <<ThisCall>>
            /\ UNCHANGED <<pc, results, statistics, exit>>
       ELSE Return(results) /\ UNCHANGED index
    /\ UNCHANGED <<elapsed, resources, prompts, operation, args, toolNames>>

\* part_002:3388-3400  the async function of one slot of batch `index` runs
\* up to its await: callTool writes the request
BatchDispatch ==
    /\ pc = "batchDispatch"
    /\ Call("tools/call")
    /\ promises' = Append(promises, ThisCall)
    /\ pc' = IF Len(promises) + 1 >= BatchSize(index) THEN "batch" ELSE "batchDispatch"
    /\ UNCHANGED <<elapsed, resources, prompts, operation, args, index, toolNames, results, execution_times, errors,
                   statistics, exit>>

RECURSIVE BatchTimes(_, _, _)
\* part_002:3402-3407  results.forEach: the times of the fulfilled calls, in
\* the order of the promises (ts: the Date.now() difference of each)
BatchTimes(times, i, ts) ==
    IF i > Len(promises) THEN times
    ELSE BatchTimes(RecordTime(times, outcome[promises[i]], ts[i]), i + 1, ts)

\* part_002:3402-3408  Promise.all of batch `index` is fulfilled
BatchSettles ==
    /\ pc = "batch"
    /\ PromiseAllSettled(promises)
    /\ \E ts \in [1..Len(promises) -> Elapsed] :
         execution_times' = BatchTimes(execution_times, 1, ts)
    /\ UNCHANGED <<elapsed, resources, prompts, operation, args, toolNames, errors>>
    /\ IF index + 1 < Batches
       THEN /\ Local("batch")
            /\ pc' = "batchDispatch"
            /\ index' = index + 1
            /\ promises' = << >>
            /\ UNCHANGED <<results, statistics, exit>>
       ELSE Return(results) /\ UNCHANGED index

(***************************************************************************)
(* Establishing the session (part_002:3146-3153, 3354-3363, 2346-2347).    *)
(***************************************************************************)
\* part_002:3148, 3356, 2346  await client.connect(): the child is spawned
OpenSession ==
    /\ pc = "start"
    /\ connect
    /\ pc' = "connect"
    /\ UNCHANGED <<elapsed, resources, prompts, operation, args, index, toolNames, promises, results, execution_times,
                   errors, statistics, exit>>

\* part_002:1203-1205  the 'error' event of the child rejects connect()
ConnectRejects ==
    /\ pc = "connect"
    /\ Throw
    /\ UNCHANGED toolNames

\* part_002:1214, 3149, 3357, 2347  connect() is fulfilled: await client.initialize()
ConnectResolves ==
    /\ pc = "connect"
    /\ initialize
    /\ pc' = "initialize"
    /\ promises' = <<ThisCall>>
    /\ UNCHANGED <<elapsed, resources, prompts, operation, args, index, toolNames, results, execution_times, errors,
                   statistics, exit>>

\* part_002:3149-3152, 3357-3360, 2347-2357  initialize() settled
HandshakeSettles ==
    /\ pc = "initialize"
    /\ Settled(promises[1])
    /\ UNCHANGED <<elapsed, resources, prompts, operation, args, toolNames, execution_times, errors>>
    /\ IF outcome[promises[1]].state = "rejected"
       THEN Throw
       ELSE IF operation = "generateTestReport"
       THEN SerialContinue(1, << >>, toolNames)
       ELSE /\ Call("tools/list")
            /\ pc' = "listTools"
            /\ promises' = <<ThisCall>>
            /\ UNCHANGED <<index, results, statistics, exit>>

\* part_002:1311  result.tools || []
Tools(result) == result

\* part_002:3152-3157, 3195, 3360-3369  listTools() settled
DiscoverySettles ==
    /\ pc = "listTools"
    /\ Settled(promises[1])
    /\ UNCHANGED <<elapsed, resources, prompts, operation, args, execution_times, errors>>
    /\ LET out == outcome[promises[1]]
           names == Tools(out.value)
       IN
       IF out.state = "rejected"
       THEN Throw /\ UNCHANGED toolNames
       ELSE IF operation = "benchmarkSingleTool"
       THEN IF Includes(names, args.test_cases[1])
            THEN /\ WarmupContinue(0)
                 /\ toolNames' = names
            ELSE \* part_002:3361-3363  throw new Error(`工具 ${tool_name} 不存在`)
                 Throw /\ UNCHANGED toolNames
       ELSE IF args.parallel
       THEN /\ Local("map")
            /\ pc' = "dispatch"
            /\ index' = 1
            /\ promises' = << >>
            /\ toolNames' = names
            /\ UNCHANGED <<results, statistics, exit>>
       ELSE /\ SerialContinue(1, << >>, names)
            /\ toolNames' = names

(***************************************************************************)
(* The target and the timers, seen from the operation.                     *)
(***************************************************************************)
\* src/index.js:953  `并发请求失败: ${e.message}`
ConcurrentFailed(message) == <<"concurrent request failed">> \o message

\* the answers of the target to the request id: a result or an error object
Replies(id) ==
    { Msg(id, FALSE, NoError, TargetTools), Msg(id, FALSE, ErrorObject(<<"boom">>), NoText) }

\* the operation is between two awaits: no event is handled
Synchronous == pc \in {"dispatch", "batchDispatch", "concurrentDispatch"}

\* part_002:3394-3397  the catch of a slot of the batch runs as soon as its
\* callTool is rejected
Reactions ==
    LET rejected == { c \in 1..Len(calls) :
                        outcome[c].state = "pending" /\ outcome'[c].state = "rejected" }
    IN
    /\ errors' = IF pc = "batch" /\ rejected # {}
                 THEN RecordError(errors, outcome'[CHOOSE c \in rejected : TRUE])
                 ELSE IF pc = "concurrent" /\ rejected # {}
                 THEN Append(errors, ConcurrentFailed(outcome'[CHOOSE c \in rejected : TRUE].value))
                 ELSE errors
    /\ UNCHANGED <<elapsed, resources, prompts, operation, args, pc, index, toolNames, promises, results,
                   execution_times, statistics, exit>>

TargetReplies ==
    /\ ~Synchronous
    /\ \E id \in DOMAIN pendingRequests : \E m \in Replies(id) :
         /\ Deliver(m)
         /\ Reactions

TimerExpires ==
    /\ ~Synchronous
    /\ \E c \in 1..Len(calls) :
         /\ MapHas(pendingRequests, calls[c])
         /\ TimeoutFires(c)
         /\ Reactions

NextTester ==
    \/ OpenSession
    \/ ConnectRejects
    \/ ConnectResolves
    \/ HandshakeSettles
    \/ DiscoverySettles
    \/ CaseSettles
    \/ ParallelDispatch
    \/ PromiseAll
    \/ WarmupSettles
    \/ MeasureSettles
    \/ BatchDispatch
    \/ BatchSettles
    \/ TargetReplies
    \/ TimerExpires

SpecTester == InitTester /\ [][NextTester]_vars

(***************************************************************************)
(* Claims about the operations of MCPTester.                               *)
(***************************************************************************)
\* the operation has returned its report or thrown
Left == exit # "running"

\* C11: when an operation that opened a session returns its report or throws,
\* on whatever path (the failure of connect, of the handshake or of the
\* discovery included), the child of the session has been killed and the
\* pending map is empty.
C11_SessionReleasedOnExit ==
    Left => (process = "null" /\ pendingRequests = << >>)

\* the operation is batchTestTools in the given mode, past its discovery
Batch(par) ==
    /\ operation = "batchTestTools"
    /\ args.parallel = par
    /\ pc \in {"call", "dispatch", "all", "done"}

\* the tools/call requests written so far: initialize and tools/list are the
\* first two requests of a batch
ToolCalls == IF Len(calls) > 2 THEN Len(calls) - 2 ELSE 0

\* the cases among the first n whose tool was discovered
Discovered(name) == name \in { toolNames[k] : k \in 1..Len(toolNames) }
KnownUpTo(n) == { i \in 1..n : Discovered(args.test_cases[i]) }

\* C12: in serial mode with stop_on_error the results are, in input order,
\* the cases up to the one being called; every result but the last is a
\* success; a case is called only when every case before it succeeded, and
\* exactly the known cases among them were written; the batch returns
\* either all the cases, or the cases up to and including the first failure.
C12_SerialStopsAfterFirstFailure ==
    (Batch(FALSE) /\ args.stop_on_error) =>
        LET n == Len(results) IN
        /\ n <= Len(args.test_cases)
        /\ \A i \in 1..n : results[i].tool_name = args.test_cases[i]
        /\ \A i \in 1..n : i < n => results[i].success
        /\ pc = "call" =>
            /\ index = n + 1
            /\ \A i \in 1..n : results[i].success
            /\ promises = <<Len(calls)>>
        /\ ToolCalls = Cardinality(KnownUpTo(n)) + (IF pc = "call" THEN 1 ELSE 0)
        /\ exit = "returned" =>
            /\ n >= 1
            /\ n < Len(args.test_cases) => ~results[n].success

\* [ok, fail, ok]: two results, two tools/call requests
C12_Witness ==
    /\ Batch(FALSE) /\ args.stop_on_error
    /\ args.test_cases = <<"a", "a", "a">>
    /\ exit = "returned"
    /\ results = <<Succeeded("a"), Failed("a", <<"boom">>)>>
    /\ ToolCalls = 2

\* the result of a case that failed the pre-check
UnknownResult(i) == Failed(args.test_cases[i], UnknownTool(args.test_cases[i]))

\* C13: in both modes of a batch, a case whose tool is not among the
\* discovered names has the unknown-tool failure as its result, and the only
\* tools/call requests written are those of the cases whose tool was
\* discovered: a case being called names a discovered tool, and the number
\* of tools/call requests equals the number of discovered-tool cases reached.
C13_UnknownToolNeverSent ==
    /\ Batch(FALSE) =>
        /\ \A i \in 1..Len(results) :
              ~Discovered(args.test_cases[i]) => results[i] = UnknownResult(i)
        /\ pc = "call" => Discovered(args.test_cases[index])
        /\ ToolCalls = Cardinality(KnownUpTo(Len(results))) + (IF pc = "call" THEN 1 ELSE 0)
    /\ (Batch(TRUE) /\ exit # "thrown") =>
        /\ \A i \in 1..Len(promises) :
              (promises[i] = NoCall) <=> ~Discovered(args.test_cases[i])
        /\ pc # "done" => ToolCalls = Cardinality(KnownUpTo(Len(promises)))
        /\ pc = "done" =>
            /\ Len(results) = Len(args.test_cases)
            /\ ToolCalls = Cardinality(KnownUpTo(Len(results)))
            /\ \A i \in 1..Len(results) :
                  ~Discovered(args.test_cases[i]) => results[i] = UnknownResult(i)

\* a parallel batch with an unknown tool between two known ones
C13_Witness ==
    /\ operation = "batchTestTools"
    /\ args.parallel
    /\ args.test_cases = <<"a", "b", "a">>
    /\ exit = "returned"
    /\ Len(results) = 3
    /\ results[2] = UnknownResult(2)
    /\ ToolCalls = 2

\* the call of case i of a parallel batch: the requests are written in the
\* order of the cases, after initialize and tools/list
CallOf(i) == 2 + Cardinality(KnownUpTo(i))

\* C14: in the parallel mode, whatever stop_on_error is: while the cases are
\* dispatched no reply is awaited (every request written so far is still
\* outstanding), every discovered-tool case is written before the first
\* reply is handled, and the batch returns one result per case, in input
\* order, each the outcome of the case's own call (or the unknown-tool
\* failure), whatever the order of the replies was.
C14_ParallelOneResultPerCase ==
    (Batch(TRUE) /\ exit # "thrown") =>
        /\ pc = "dispatch" =>
            /\ index = Len(promises) + 1
            /\ \A i \in 1..Len(promises) :
                  promises[i] # NoCall =>
                      /\ promises[i] = CallOf(i)
                      /\ outcome[promises[i]].state = "pending"
        /\ pc = "all" =>
            /\ Len(promises) = Len(args.test_cases)
            /\ ToolCalls = Cardinality(KnownUpTo(Len(args.test_cases)))
        /\ pc = "done" =>
            /\ Len(results) = Len(args.test_cases)
            /\ \A i \in 1..Len(results) :
                  results[i] = IF Discovered(args.test_cases[i])
                               THEN ResultOf(args.test_cases[i], outcome[CallOf(i)])
                               ELSE UnknownResult(i)

\* stop_on_error is set, the first case fails (its timer expired after the
\* reply to the second case came), the second case has its own result
C14_Witness ==
    /\ Batch(TRUE) /\ args.stop_on_error
    /\ exit = "returned"
    /\ results = <<Failed("a", TimeoutError), Succeeded("a"), Failed("b", UnknownTool("b"))>>

\* C15: batchTestTools throws only when the session was not established:
\* connect() was rejected, or the initialize request or the tools/list
\* request (the last request written) was rejected, and no case has run;
\* once the discovery succeeded it returns, whatever the cases did.
C15_ThrowsOnlyOnSetupFailure ==
    operation = "batchTestTools" =>
        /\ exit = "thrown" =>
            /\ results = << >>
            /\ Len(calls) <= 2
            /\ Len(calls) > 0 => outcome[Len(calls)].state = "rejected"
        /\ exit = "returned" =>
            /\ Len(calls) >= 2
            /\ outcome[1].state = "resolved"
            /\ outcome[2].state = "resolved"

\* a batch whose three cases fail in the three ways returns three failures
C15_Witness ==
    /\ operation = "batchTestTools"
    /\ ~args.parallel
    /\ exit = "returned"
    /\ results = <<Failed("a", <<"boom">>), Failed("a", TimeoutError),
                   Failed("b", UnknownTool("b"))>>

\* the measurement phase of a benchmark with concurrent_requests > 1
Batched ==
    /\ operation = "benchmarkSingleTool"
    /\ args.concurrent_requests > 1
    /\ pc \in {"batchDispatch", "batch"}

\* the requests written and not yet settled
Outstanding == Cardinality(DOMAIN pendingRequests)

\* C16: in the batched measurement phase a batch has at most
\* concurrent_requests calls, the outstanding requests of the session are
\* calls of the batch in progress (so at most concurrent_requests), and a
\* batch starts with no request outstanding: every call of the batch before
\* it has settled.
C16_BatchesBoundOutstanding ==
    Batched =>
        /\ index < Batches
        /\ Len(promises) <= BatchSize(index)
        /\ BatchSize(index) <= args.concurrent_requests
        /\ DOMAIN pendingRequests \subseteq { calls[promises[i]] : i \in 1..Len(promises) }
        /\ Outstanding <= args.concurrent_requests
        /\ pc = "batch" => Len(promises) = BatchSize(index)
        /\ (pc = "batchDispatch" /\ promises = << >>) => Outstanding = 0

\* the second batch has been written while the first is settled: 3 iterations
\* in batches of 2 and 1
C16_Witness ==
    /\ Batched
    /\ args.iterations = 3
    /\ args.concurrent_requests = 2
    /\ index = 1
    /\ pc = "batch"
    /\ Outstanding = 1
    /\ Len(execution_times) + Len(errors) = 2

\* the measured calls: those written after initialize, tools/list and the
\* warm-up calls
Measured == { c \in 1..Len(calls) : c > 2 + args.warmup_iterations }

\* the calls whose outcome the operation has not consumed yet
Awaited == { promises[i] : i \in 1..Len(promises) }

\* the measurement phase of a benchmark, and its end
Measuring ==
    /\ operation = "benchmarkSingleTool"
    /\ pc \in {"measure", "batchDispatch", "batch", "done"}
    /\ exit # "thrown"

\* C17: in both branches the samples are one per fulfilled measured call
\* whose outcome was consumed, the errors one per rejected measured call
\* (consumed at once in a batch, after the await in the sequential branch),
\* so that no call counts twice or in the wrong list; when the benchmark
\* returns, iterations calls were measured and samples + errors = iterations.
C17_OneSampleOrOneError ==
    Measuring =>
        /\ Len(execution_times) =
              Cardinality({ c \in Measured \ Awaited : outcome[c].state = "resolved" })
        /\ Len(errors) =
              Cardinality({ c \in Measured \ (IF pc = "measure" THEN Awaited ELSE {}) :
                              outcome[c].state = "rejected" })
        /\ exit = "returned" =>
            /\ Cardinality(Measured) = args.iterations
            /\ Len(execution_times) + Len(errors) = args.iterations

\* a batched run of 3 iterations: two samples, one error
C17_Witness ==
    /\ Measuring
    /\ exit = "returned"
    /\ args.iterations = 3
    /\ args.concurrent_requests = 2
    /\ Len(execution_times) = 2
    /\ errors = << <<"boom">> >>

\* C18: during the warm-up of a benchmark, and when its measurement phase
\* starts (the first sequential call is awaited, or the first batch is being
\* dispatched), the samples and the errors are empty, whatever the warm-up
\* calls did; the benchmark throws only before its first warm-up call, and
\* when it returns all warm-up and all measured calls were made.
C18_WarmupIsDiscarded ==
    operation = "benchmarkSingleTool" =>
        /\ pc = "warmup" =>
            /\ index < args.warmup_iterations
            /\ execution_times = << >>
            /\ errors = << >>
        /\ ((pc = "measure" /\ index = 1) \/ (pc = "batchDispatch" /\ index = 0)) =>
            /\ execution_times = << >>
            /\ errors = << >>
        /\ exit = "thrown" => Len(calls) <= 2
        /\ exit = "returned" =>
              Len(calls) = 2 + args.warmup_iterations + args.iterations

\* the warm-up call was rejected, the run went on and measured its calls
C18_Witness ==
    /\ operation = "benchmarkSingleTool"
    /\ args.warmup_iterations = 1
    /\ Len(calls) > 2
    /\ outcome[3].state = "rejected"
    /\ exit = "returned"
    /\ errors = << >>
    /\ Len(execution_times) = args.iterations

(***************************************************************************)
(* SpecStats: the statistics over the samples of a run.  The measured      *)
(* calls of a benchmark are reduced to what they leave behind, a sample or *)
(* an error each; then the statistics are computed, by calculateStats in   *)
(* benchmarkMCPPerformance and by the statistics block in                  *)
(* benchmarkSingleTool.                                                    *)
(***************************************************************************)
\* measured calls of a run
MaxSamples == 9

\* the elapsed times of the fulfilled calls, in ms
Times == {0, 7}

Benchmarks == {"benchmarkMCPPerformance", "benchmarkSingleTool"}

InitStats ==
    /\ process = "child"
    /\ messageBuffer = NoText
    /\ pendingRequests = << >>
    /\ nextId = 1
    /\ initialized = FALSE
    /\ calls = << >>
    /\ handshake = NoCall
    /\ outcome = << >>
    /\ timer = << >>
    /\ notifications = 0
    /\ sent = << >>
    /\ stdout = << >>
    /\ received = NoText
    /\ handled = << >>
    /\ raised = FALSE
    /\ ev = Event("new", NoId)
    /\ operation \in Benchmarks
    /\ args \in { Args(<<"a">>, FALSE, FALSE, it, 1, 0) : it \in 1..MaxSamples }
    /\ pc = "measure"
    /\ index = 0
    /\ toolNames = TargetTools
    /\ promises = << >>
    /\ results = << >>
    /\ execution_times = << >>
    /\ errors = << >>
    /\ statistics = EmptyStatistics
    /\ exit = "running"
    /\ resources = << >>
    /\ prompts = << >>
    /\ elapsed = << >>

\* a step of the statistics: the client is not touched
StatsStep(step) ==
    /\ Local(step)
    /\ UNCHANGED <<elapsed, resources, prompts, operation, args, toolNames, promises, results>>

\* part_002:3415, src/index.js:938  a measured call was fulfilled after t ms
SampleRecorded ==
    /\ pc = "measure"
    /\ index < args.iterations
    /\ \E t \in Times : execution_times' = Append(execution_times, t)
    /\ index' = index + 1
    /\ StatsStep("sample")
    /\ UNCHANGED <<pc, errors, statistics, exit>>

\* part_002:3417, src/index.js:940  a measured call was rejected
ErrorRecorded ==
    /\ pc = "measure"
    /\ index < args.iterations
    /\ errors' = Append(errors, <<"boom">>)
    /\ index' = index + 1
    /\ StatsStep("error")
    /\ UNCHANGED <<pc, execution_times, statistics, exit>>

\* part_002:3422-3451  the statistics of benchmarkSingleTool
ComputeStatistics ==
    /\ pc = "measure"
    /\ index = args.iterations
    /\ operation = "benchmarkSingleTool"
    /\ statistics' = Statistics(execution_times, errors, args.iterations)
    /\ pc' = "done"
    /\ exit' = "returned"
    /\ StatsStep("statistics")
    /\ UNCHANGED <<index, execution_times, errors>>

\* src/index.js:975-982  summary.toolCalls[toolName] = calculateStats(times)
ComputeSummary ==
    /\ pc = "measure"
    /\ index = args.iterations
    /\ operation = "benchmarkMCPPerformance"
    /\ statistics' = calculateStats(execution_times)
    /\ pc' = "done"
    /\ exit' = "returned"
    /\ StatsStep("calculateStats")
    /\ UNCHANGED <<index, execution_times, errors>>

NextStats ==
    \/ SampleRecorded
    \/ ErrorRecorded
    \/ ComputeStatistics
    \/ ComputeSummary

SpecStats == InitStats /\ [][NextStats]_vars

(***************************************************************************)
(* Claims about the statistics.                                            *)
(***************************************************************************)
\* the statistics of a run were computed
Computed == pc = "done" /\ ev.op \in {"statistics", "calculateStats"}

\* the k-th smallest of the samples (k from 1), without sorting them
Kth(data, k) ==
    CHOOSE v \in { data[i] : i \in 1..Len(data) } :
        /\ Cardinality({ i \in 1..Len(data) : data[i] < v }) < k
        /\ Cardinality({ i \in 1..Len(data) : data[i] <= v }) >= k

\* the position floor(rank * count), rank in percent
Position(count, rank) == (count * rank) \div 100

\* C19: for a non-empty sample sequence every percentile the statistics
\* report is the sample at position floor(rank * count) of the ascending
\* order, that position is one of 0..count-1 so that no percentile is
\* undefined, min and max are the smallest and the largest sample, and
\* min <= p50 <= p90 <= p95 <= p99 <= max (min <= p50 <= p95 <= max for
\* calculateStats, which reports these only).
C19_PercentilesOrdered ==
    (Computed /\ execution_times # << >>) =>
        LET n == Len(execution_times)
            st == statistics
            Sample(rank) == Kth(execution_times, Position(n, rank) + 1)
        IN
        /\ \A rank \in {50, 90, 95, 99} : Position(n, rank) \in 0..(n - 1)
        /\ st.min = Kth(execution_times, 1)
        /\ st.max = Kth(execution_times, n)
        /\ st.p50 = Sample(50)
        /\ st.p95 = Sample(95)
        /\ st.min <= st.p50 /\ st.p50 <= st.p95 /\ st.p95 <= st.max
        /\ operation = "benchmarkSingleTool" =>
            /\ st.p90 = Sample(90)
            /\ st.p99 = Sample(99)
            /\ st.p50 <= st.p90 /\ st.p90 <= st.p95
            /\ st.p95 <= st.p99 /\ st.p99 <= st.max

\* nine samples given out of order: the median is 0 ms, the 90th percentile 7 ms
C19_Witness ==
    /\ Computed
    /\ operation = "benchmarkSingleTool"
    /\ execution_times = <<7, 0, 0, 7, 0, 0, 0, 7, 0>>
    /\ statistics.min = 0
    /\ statistics.p50 = 0
    /\ statistics.p90 = 7
    /\ statistics.max = 7

\* C20: a run without a sample ends with statistics that are zero or
\* undefined, and the statistics (and the report rows made of them) of a run
\* with at least one sample always differ from those of a run without one.
C20_NoDataIsDistinguishable ==
    Computed =>
        /\ exit = "returned"
        /\ execution_times = << >> =>
              \A v \in { statistics.avg, statistics.min, statistics.max, statistics.p50,
                         statistics.p95 } : v \in {0, Undefined}
        /\ execution_times # << >> =>
              IF operation = "benchmarkSingleTool"
              THEN /\ statistics # Statistics(<< >>, errors, args.iterations)
                   /\ ReportRows(statistics, args.iterations)
                        # ReportRows(Statistics(<< >>, errors, args.iterations),
                                     args.iterations)
              ELSE statistics # calculateStats(<< >>)


(***************************************************************************)
(* The benchmark of a server: benchmarkMCPPerformance                      *)
(* (src/index.js:880-1049).  SpecBenchmark runs it on one client from its  *)
(* first statement to its return.  results holds metrics.listTools,       *)
(* execution_times holds metrics.toolCalls of the tested tool.             *)
(***************************************************************************)
\* src/index.js:881-886, 893-907  the arguments, a new client, empty metrics
InitBenchmark ==
    /\ process = "null"
    /\ messageBuffer = NoText
    /\ pendingRequests = << >>
    /\ nextId = 1
    /\ initialized = FALSE
    /\ calls = << >>
    /\ handshake = NoCall
    /\ outcome = << >>
    /\ timer = << >>
    /\ notifications = 0
    /\ sent = << >>
    /\ stdout = << >>
    /\ received = NoText
    /\ handled = << >>
    /\ raised = FALSE
    /\ ev = Event("new", NoId)
    /\ operation = "benchmarkMCPPerformance"
    /\ args \in { Args(<< >>, FALSE, FALSE, it, conc, 0) :
                    it \in 1..MaxIterations, conc \in 1..MaxConcurrent }
    /\ pc = "start"
    /\ index = 0
    /\ toolNames = << >>
    /\ promises = << >>
    /\ results = << >>
    /\ execution_times = << >>
    /\ errors = << >>
    /\ statistics = EmptyStatistics
    /\ exit = "running"
    /\ resources = << >>
    /\ prompts = << >>
    /\ elapsed = << >>

\* src/index.js:990  `基准测试失败: ${error.message}`
BenchmarkFailed(message) == <<"benchmark failed">> \o message

\* src/index.js:940  `工具调用失败 (迭代 ${i + 1}): ${e.message}`
ToolCallFailed(i, message) == <<"tool call failed", i>> \o message


\* src/index.js:989-993  an exception reaches the catch clause: it is pushed to
\* errors, finally disconnects, and the report is returned without a summary
BenchmarkCatch(message) ==
    /\ errors' = Append(errors, BenchmarkFailed(message))
    /\ disconnect
    /\ pc' = "done"
    /\ exit' = "returned"
    /\ promises' = << >>
    /\ UNCHANGED <<elapsed, resources, prompts, operation, args, index, results, execution_times,
                   statistics>>

\* src/index.js:985  iterations * (1 + Object.keys(metrics.toolCalls).length):
\* the tested tool is the one key
TotalAttempts == args.iterations * (1 + 1)

\* src/index.js:986  totalAttempts - benchmarkResults.errors.length
SuccessfulAttempts(errs) == TotalAttempts - Len(errs)

\* src/index.js:987  (successfulAttempts / totalAttempts * 100).toFixed(2), in
\* hundredths of a percent; toFixed rounds the magnitude and keeps the sign
AttemptRate(successful, total) ==
    IF successful >= 0 THEN RoundDiv(successful * 10000, total)
    ELSE 0 - RoundDiv((0 - successful) * 10000, total)

\* src/index.js:962-993  the summary of the tool calls and the success rate
\* are computed, finally disconnects, and the report is returned
BenchmarkReturn ==
    /\ statistics' = [calculateStats(execution_times') EXCEPT
                        !.total_requests = TotalAttempts,
                        !.successful_requests = SuccessfulAttempts(errors'),
                        !.success_rate = AttemptRate(SuccessfulAttempts(errors'),
                                                    TotalAttempts)]
    /\ disconnect
    /\ pc' = "done"
    /\ exit' = "returned"
    /\ promises' = << >>

\* src/index.js:1203-1205 of part_002, src/index.js:911  connect() is rejected
BenchmarkConnectRejects ==
    /\ pc = "connect"
    /\ operation = "benchmarkMCPPerformance"
    /\ BenchmarkCatch(<<"spawn">>)
    /\ UNCHANGED toolNames

\* src/index.js:917-918  initialize() settled: const tools = await client.listTools()
BenchmarkHandshakeSettles ==
    /\ pc = "initialize"
    /\ operation = "benchmarkMCPPerformance"
    /\ Settled(promises[1])
    /\ UNCHANGED toolNames
    /\ IF outcome[promises[1]].state = "rejected"
       THEN BenchmarkCatch(outcome[promises[1]].value)
       ELSE /\ Call("tools/list")
            /\ pc' = "listTools"
            /\ promises' = <<ThisCall>>
            /\ UNCHANGED <<elapsed, resources, prompts, operation, args, index, results,
                           execution_times, errors, statistics, exit>>

\* src/index.js:918-927  listTools() settled: the first tool is the tested one,
\* and iteration 0 begins with its await client.listTools()
BenchmarkDiscoverySettles ==
    /\ pc = "listTools"
    /\ operation = "benchmarkMCPPerformance"
    /\ Settled(promises[1])
    /\ IF outcome[promises[1]].state = "rejected"
       THEN BenchmarkCatch(outcome[promises[1]].value) /\ UNCHANGED toolNames
       ELSE /\ toolNames' = Tools(outcome[promises[1]].value)
            /\ Call("tools/list")
            /\ pc' = "iterationList"
            /\ index' = 0
            /\ promises' = <<ThisCall>>
            /\ UNCHANGED <<elapsed, resources, prompts, operation, args, results, execution_times,
                           errors, statistics, exit>>

\* src/index.js:925-937  the listTools() of iteration `index` settled.  The
\* await is outside every try block of the loop: a rejection goes to the catch
\* clause of the operation.  Else the time is pushed and the tool is called.
IterationListSettles ==
    /\ pc = "iterationList"
    /\ Settled(promises[1])
    /\ UNCHANGED toolNames
    /\ IF outcome[promises[1]].state = "rejected"
       THEN BenchmarkCatch(outcome[promises[1]].value)
       ELSE /\ \E t \in Elapsed : results' = Append(results, t)
            /\ Call("tools/call")
            /\ pc' = "iterationCall"
            /\ promises' = <<ThisCall>>
            /\ UNCHANGED <<elapsed, resources, prompts, operation, args, index, execution_times,
                           errors, statistics, exit>>

\* src/index.js:936-962  the callTool() of iteration `index` settled: its time
\* or its error is pushed; the next iteration begins, or the concurrent test,
\* or the summary
IterationCallSettles ==
    /\ pc = "iterationCall"
    /\ Settled(promises[1])
    /\ LET out == outcome[promises[1]] IN
       /\ \E t \in Elapsed : execution_times' = RecordTime(execution_times, out, t)
       /\ errors' = IF out.state = "rejected"
                    THEN Append(errors, ToolCallFailed(index + 1, out.value))
                    ELSE errors
    /\ UNCHANGED <<elapsed, resources, prompts, operation, args, toolNames, results>>
    /\ IF index + 1 < args.iterations
       THEN /\ Call("tools/list")
            /\ pc' = "iterationList"
            /\ index' = index + 1
            /\ promises' = <<ThisCall>>
            /\ UNCHANGED <<statistics, exit>>
       ELSE IF args.concurrent_requests > 1
       THEN /\ Local("concurrent")
            /\ pc' = "concurrentDispatch"
            /\ promises' = << >>
            /\ UNCHANGED <<index, statistics, exit>>
       ELSE BenchmarkReturn /\ UNCHANGED index

\* src/index.js:951-956  one callTool() of the concurrent test is issued
ConcurrentDispatch ==
    /\ pc = "concurrentDispatch"
    /\ Call("tools/call")
    /\ promises' = Append(promises, ThisCall)
    /\ pc' = IF Len(promises) + 1 >= args.concurrent_requests
             THEN "concurrent" ELSE "concurrentDispatch"
    /\ UNCHANGED <<elapsed, resources, prompts, operation, args, index, toolNames, results,
                   execution_times, errors, statistics, exit>>

\* src/index.js:958-993  Promise.all of the concurrent test is fulfilled
ConcurrentSettles ==
    /\ pc = "concurrent"
    /\ PromiseAllSettled(promises)
    /\ UNCHANGED <<elapsed, resources, prompts, operation, args, index, toolNames, results,
                   execution_times, errors>>
    /\ BenchmarkReturn

NextBenchmark ==
    \/ OpenSession
    \/ BenchmarkConnectRejects
    \/ ConnectResolves
    \/ BenchmarkHandshakeSettles
    \/ BenchmarkDiscoverySettles
    \/ IterationListSettles
    \/ IterationCallSettles
    \/ ConcurrentDispatch
    \/ ConcurrentSettles
    \/ TargetReplies
    \/ TimerExpires

SpecBenchmark == InitBenchmark /\ [][NextBenchmark]_vars

\* the requests of the iteration loop that were issued: the calls after
\* initialize and the first listTools, the concurrent ones excluded
LoopCalls == { c \in 1..Len(calls) : c > 2 /\ c <= 2 + 2 * args.iterations }

\* C21: in a benchmark run a rejected request of the iteration loop (the
\* discovery call or the tool call of an iteration) never aborts the run: once
\* the session is set up (the tools were discovered), the run returns only
\* after every iteration has issued both of its requests.
C21_PerCallErrorNeverAborts ==
    (operation = "benchmarkMCPPerformance" /\ Left /\ toolNames # << >>) =>
        Cardinality(LoopCalls) = 2 * args.iterations


(***************************************************************************)
(* The negative-case validator: testNegativeCases (part_002:3518-3762).    *)
(* Texts are sequences of characters.  A response is the result of a       *)
(* tools/call request: an object with the members isError, message, error  *)
(* and content (NoText: the member is absent), content being a list of     *)
(* items with a type and a text.                                           *)
(***************************************************************************)
\* String.prototype.toLowerCase, on the capital letters of the model
LowerChar(c) ==
    CASE c = "C" -> "c" [] c = "D" -> "d" [] c = "E" -> "e" [] c = "N" -> "n"
      [] c = "O" -> "o" [] c = "R" -> "r" [] c = "Z" -> "z" [] OTHER -> c

toLowerCase(text) == [i \in 1..Len(text) |-> LowerChar(text[i])]

\* part occurs in text at position k
MatchAt(text, part, k) ==
    /\ k + Len(part) - 1 <= Len(text)
    /\ \A i \in 1..Len(part) : text[k + i - 1] = part[i]

\* String.prototype.includes
StringIncludes(text, part) == \E k \in 1..(Len(text) + 1) : MatchAt(text, part, k)

\* new RegExp(pattern) throws a SyntaxError: of the characters of the model
\* "(" is the one that makes a pattern invalid, a group that nothing closes
Compiles(pattern) == \A i \in 1..Len(pattern) : pattern[i] # "("

\* one character of a pattern against one of the text: "." is every character
\* but a line terminator, any other character of the model is a literal
CharMatches(p, c, ignoreCase) ==
    IF p = "." THEN c # "LF"
    ELSE IF ignoreCase THEN LowerChar(p) = LowerChar(c)
    ELSE p = c

\* RegExp.prototype.test of a pattern that compiles: a match at some position
RegExpTest(pattern, text, ignoreCase) ==
    \E k \in 1..(Len(text) + 1) :
        /\ k + Len(pattern) - 1 <= Len(text)
        /\ \A i \in 1..Len(pattern) : CharMatches(pattern[i], text[k + i - 1], ignoreCase)

ErrorPrefix == <<"e", "r", "r", "o", "r", ":">>

RECURSIVE SkipSpace(_)
\* \s* at its longest
SkipSpace(text) ==
    IF text # << >> /\ Head(text) \in {" ", "LF"} THEN SkipSpace(Tail(text)) ELSE text

RECURSIVE UpToLineEnd(_)
\* (.+?)(?:\n|$): the characters up to the first line feed or the end
UpToLineEnd(text) ==
    IF text = << >> \/ Head(text) = "LF" THEN << >>
    ELSE <<Head(text)>> \o UpToLineEnd(Tail(text))

\* part_002:3590  /Error:\s*(.+?)(?:\n|$)/i tried at position k.  When only
\* white space follows the colon, \s* gives back a space to the group.
ErrorMatchAt(text, k) ==
    LET after == SubSeq(text, k + Len(ErrorPrefix), Len(text))
        rest == SkipSpace(after)
    IN  IF ~MatchAt(toLowerCase(text), ErrorPrefix, k)
        THEN [found |-> FALSE, group |-> NoText]
        ELSE IF rest # << >>
        THEN [found |-> TRUE, group |-> UpToLineEnd(rest)]
        ELSE [found |-> \E i \in 1..Len(after) : after[i] = " ", group |-> <<" ">>]

\* part_002:3590  item.text.match(...): the leftmost match, or none
ErrorMatch(text) ==
    LET at == { k \in 1..Len(text) : ErrorMatchAt(text, k).found } IN
    IF at = {} THEN [found |-> FALSE, group |-> NoText]
    ELSE ErrorMatchAt(text, MinOf(at))

\* part_002:3586-3587  the markers of an error text
Markers ==
    { <<"E", "r", "r", "o", "r", ":">>,
      <<"U+9519", "U+8BEF">>,                      \* 错误
      <<"i", "s", "E", "r", "r", "o", "r", ":", " ", "t", "r", "u", "e">>,
      <<"e", "r", "r", "o", "r">> }

\* part_002:3586-3587  item.text.includes('Error:') || item.text.includes('错误') || ...
HasMarker(text) == \E marker \in Markers : StringIncludes(text, marker)

\* part_002:3578  '响应标记为错误'
FlaggedText == <<"U+54CD", "U+5E94", "U+6807", "U+8BB0", "U+4E3A", "U+9519", "U+8BEF">>

Response(flag, message, error, content) ==
    [isError |-> flag, message |-> message, error |-> error, content |-> content]

Item(type, text) == [type |-> type, text |-> text]

Shape(isErrorResponse, errorMessage) ==
    [isErrorResponse |-> isErrorResponse, errorMessage |-> errorMessage]

\* part_002:3572-3579  response.isError === true:
\* errorMessage = response.message || response.error || '响应标记为错误'
FlagShape(response) ==
    IF response.isError
    THEN Shape(TRUE, IF response.message # NoText THEN response.message
                     ELSE IF response.error # NoText THEN response.error
                     ELSE FlaggedText)
    ELSE Shape(FALSE, NoText)

RECURSIVE ContentShape(_, _)
\* part_002:3582-3600  the first text item with a marker makes the response an
\* error response; its message is the group of the match, or the whole text
ContentShape(content, shape) ==
    IF content = << >> THEN shape
    ELSE LET item == Head(content) IN
         IF item.type = "text" /\ item.text # NoText /\ HasMarker(item.text)
         THEN Shape(TRUE, IF ErrorMatch(item.text).found
                          THEN trim(ErrorMatch(item.text).group)
                          ELSE item.text)
         ELSE ContentShape(Tail(content), shape)

\* part_002:3571-3600
ErrorShape(response) == ContentShape(response.content, FlagShape(response))

\* part_002:3607-3632  passed, for the message of an error response
ResponseMatches(errorMessage, expected_error, strict_mode) ==
    IF expected_error = NoText THEN TRUE
    ELSE IF strict_mode
    THEN \/ errorMessage = expected_error
         \/ errorMessage # NoText /\ StringIncludes(errorMessage, expected_error)
    ELSE IF Compiles(expected_error)
    THEN RegExpTest(expected_error, errorMessage, TRUE)
    ELSE StringIncludes(toLowerCase(errorMessage), toLowerCase(expected_error))

\* part_002:3661-3685  passed, for the message of a raised error
RaisedMatches(message, expected_error, strict_mode) ==
    IF expected_error = NoText THEN TRUE
    ELSE IF strict_mode THEN message = expected_error
    ELSE IF Compiles(expected_error)
    THEN RegExpTest(expected_error, message, FALSE)
    ELSE StringIncludes(message, expected_error)

\* a result of testResults.results; response_type tells the branch that made it
NegativeResult(name, passed, expected_error, actual_error, response_type) ==
    [tool_name |-> name, passed |-> passed, expected_error |-> expected_error,
     actual_error |-> actual_error, response_type |-> response_type]

\* variant of NoErrorResult: a call that reports no error passes
NoErrorPasses(name, expected_error) ==
    NegativeResult(name, TRUE, expected_error, NoText, "success")

\* part_002:3644-3655  neither a raised error nor an error response
NoErrorResult(name, expected_error) ==
    NegativeResult(name, FALSE, expected_error, NoText, "success")

\* part_002:3567-3696  the result of a case from the settled promise of its
\* callTool: the catch clause, the error response or the plain response
Verify(name, expected_error, strict_mode, out) ==
    IF out.state = "rejected"
    THEN NegativeResult(name, RaisedMatches(out.value, expected_error, strict_mode),
                        expected_error, out.value, "raised")
    ELSE LET shape == ErrorShape(out.value) IN
         IF shape.isErrorResponse
         THEN NegativeResult(name,
                             ResponseMatches(shape.errorMessage, expected_error, strict_mode),
                             expected_error, shape.errorMessage, "error response")
         ELSE NoErrorResult(name, expected_error)

\* variant of UnknownCase: a case of an unknown tool leaves no result
UnknownCaseDropped(res, name, expected_error) == res

\* part_002:3555-3565  the tool is not among the discovered ones
UnknownCase(res, name, expected_error) ==
    Append(res, NegativeResult(name, FALSE, expected_error, NoText, "unknown tool"))

RECURSIVE NegativeSkip(_, _, _)
\* part_002:3552-3565  from case i on, the cases of unknown tools get their
\* result, up to the first case to call or the end of the list
NegativeSkip(i, res, names) ==
    IF i > Len(args.test_cases) \/ Includes(names, args.test_cases[i])
    THEN [index |-> i, results |-> res]
    ELSE NegativeSkip(i + 1, UnknownCase(res, args.test_cases[i], args.expected_error[i]),
                      names)

\* part_002:3700-3701  results.filter(r => r.passed).length, filter(r => !r.passed).length
Count(res, passed) == Cardinality({ i \in 1..Len(res) : res[i].passed = passed })

\* part_002:3699-3707  the loop ended: the counts are taken, finally disconnects
NegativeReturn(res) ==
    /\ disconnect
    /\ pc' = "done"
    /\ exit' = "returned"
    /\ results' = res
    /\ promises' = << >>
    /\ statistics' = [passed |-> Count(res, TRUE), failed |-> Count(res, FALSE)]

\* the loop runs from case i to its next await, or to its end
NegativeContinue(i, res, names) ==
    LET adv == NegativeSkip(i, res, names) IN
    /\ index' = adv.index
    /\ IF adv.index > Len(args.test_cases)
       THEN NegativeReturn(adv.results)
       ELSE /\ Call("tools/call")
            /\ pc' = "negativeCall"
            /\ promises' = <<ThisCall>>
            /\ results' = adv.results
            /\ UNCHANGED <<exit, statistics>>

\* part_002:3548-3552  listTools() settled: the loop over the cases begins
NegativeDiscoverySettles ==
    /\ pc = "listTools"
    /\ operation = "testNegativeCases"
    /\ Settled(promises[1])
    /\ UNCHANGED <<elapsed, resources, prompts, operation, args, execution_times, errors>>
    /\ IF outcome[promises[1]].state = "rejected"
       THEN Throw /\ UNCHANGED toolNames
       ELSE /\ toolNames' = Tools(outcome[promises[1]].value)
            /\ NegativeContinue(1, << >>, Tools(outcome[promises[1]].value))

\* part_002:3567-3697  the callTool of case `index` settled
NegativeCaseSettles ==
    /\ pc = "negativeCall"
    /\ Settled(promises[1])
    /\ UNCHANGED <<elapsed, resources, prompts, operation, args, toolNames, execution_times, errors>>
    /\ NegativeContinue(index + 1,
                        Append(results, Verify(args.test_cases[index],
                                               args.expected_error[index],
                                               args.strict_mode, outcome[promises[1]])),
                        toolNames)

\* the texts of the model
Zero == <<"z", "e", "r", "o">>
DivisionByZero == <<"i", "v", "i", "s", "i", "o", "n", " ", "b", "y", " ">> \o Zero
ErrorDivisionByZero == <<"E", "r", "r", "o", "r", ":", " ", "d">> \o DivisionByZero

\* the expected_error of a case: absent, or a pattern
Patterns ==
    { NoText,
      Zero,                                \* zero
      <<"D">> \o DivisionByZero,           \* Division by zero
      <<"d", "i", "v">>,                   \* div
      <<"z", ".", "r", "o">>,              \* z.ro
      <<"(">> \o Zero }                    \* (zero: no regular expression

\* the responses of the target to a tools/call request
Observations ==
    { Response(FALSE, NoText, NoText, <<Item("text", <<"o", "k">>)>>),
      Response(FALSE, NoText, NoText, <<Item("text", ErrorDivisionByZero)>>),
      Response(FALSE, NoText, NoText, <<Item("text", <<"E", "R", "R", "O", "R">>)>>),
      Response(FALSE, NoText, NoText, <<Item("text", <<"e", "r", "r", "o", "r", " ">> \o Zero)>>),
      Response(FALSE, NoText, NoText, <<Item("image", ErrorDivisionByZero)>>),
      Response(FALSE, NoText, NoText, <<Item("text", <<"f", "(", "Z", "e", "r", "o", ")">>)>>),
      Response(TRUE, <<"D">> \o DivisionByZero, NoText, << >>),
      Response(TRUE, NoText, NoText, << >>) }

\* the messages of the error objects of the target
RemoteErrors ==
    { <<"D">> \o DivisionByZero,
      <<"f", "(", "Z", "e", "r", "o", ")">> }

\* part_002:3519-3527  the arguments that pass validation
NegativeArgs(cases, expected, strict) ==
    [test_cases |-> cases, expected_error |-> expected, strict_mode |-> strict,
     parallel |-> FALSE, stop_on_error |-> FALSE, iterations |-> 0,
     concurrent_requests |-> 1, warmup_iterations |-> 0]

\* part_002:3534-3540  the operation is entered with a new client and no results
NewOperation(op) ==
    /\ process = "null"
    /\ messageBuffer = NoText
    /\ pendingRequests = << >>
    /\ nextId = 1
    /\ initialized = FALSE
    /\ calls = << >>
    /\ handshake = NoCall
    /\ outcome = << >>
    /\ timer = << >>
    /\ notifications = 0
    /\ sent = << >>
    /\ stdout = << >>
    /\ received = NoText
    /\ handled = << >>
    /\ raised = FALSE
    /\ ev = Event("new", NoId)
    /\ operation = op
    /\ pc = "start"
    /\ index = 0
    /\ toolNames = << >>
    /\ promises = << >>
    /\ results = << >>
    /\ execution_times = << >>
    /\ errors = << >>
    /\ statistics = EmptyStatistics
    /\ exit = "running"
    /\ resources = << >>
    /\ prompts = << >>
    /\ elapsed = << >>

\* one case of the tool of the target, with every pattern
InitMatch ==
    /\ NewOperation("testNegativeCases")
    /\ args \in { NegativeArgs(<<"a">>, <<p>>, strict) : p \in Patterns, strict \in BOOLEAN }

\* the target answers the request id: the tools/call of a case with a
\* response or an error object, any other request as in Replies
CaseReplies(id, responses, messages) ==
    IF pc = "negativeCall"
    THEN { Msg(id, FALSE, NoError, r) : r \in responses }
            \cup { Msg(id, FALSE, ErrorObject(e), NoText) : e \in messages }
    ELSE Replies(id)

ObservedReplies ==
    \E id \in DOMAIN pendingRequests : \E m \in CaseReplies(id, Observations, RemoteErrors) :
        /\ Deliver(m)
        /\ Reactions

NextMatch ==
    \/ OpenSession
    \/ ConnectRejects
    \/ ConnectResolves
    \/ HandshakeSettles
    \/ NegativeDiscoverySettles
    \/ NegativeCaseSettles
    \/ ObservedReplies
    \/ TimerExpires

\* one case, every observation of its call and every pattern
SpecMatch == InitMatch /\ [][NextMatch]_vars


(***************************************************************************)
(* Claims about the negative-case validator.                               *)
(***************************************************************************)
\* the run of one case returned the result of a call that was made
Verified ==
    /\ operation = "testNegativeCases"
    /\ exit = "returned"
    /\ Len(args.test_cases) = 1
    /\ Len(results) = 1
    /\ Len(calls) = 3

\* what the callTool of the case settled with
Observed == outcome[3]

\* an error was observed: raised by the call, or taken from an error response
ErrorObserved == results[1].response_type \in {"raised", "error response"}

\* C22: with an expected pattern and strict matching, a case whose call
\* raised an error or returned an error response passes if and only if the
\* observed error text is equal to the pattern.
C22_StrictIsExactEquality ==
    (Verified /\ args.strict_mode /\ args.expected_error[1] # NoText /\ ErrorObserved) =>
        (results[1].passed <=> results[1].actual_error = args.expected_error[1])

\* the pattern as a case-insensitive regular expression, or, when it is none,
\* as a text that the lower-cased error text contains in lower case
MatchesIgnoringCase(pattern, text) ==
    IF Compiles(pattern)
    THEN RegExpTest(pattern, text, TRUE)
    ELSE StringIncludes(toLowerCase(text), toLowerCase(pattern))

\* C23: with an expected pattern and non-strict matching, a case passes if
\* and only if the pattern matches the observed error text without regard to
\* case, as a regular expression or, failing that, as a substring; the error
\* raised by the call and the error taken from a response are treated alike.
C23_NonStrictIgnoresCase ==
    (Verified /\ ~args.strict_mode /\ args.expected_error[1] # NoText /\ ErrorObserved) =>
        (results[1].passed <=>
            MatchesIgnoringCase(args.expected_error[1], results[1].actual_error))

\* the call returned a response that is no error response
PlainResponse ==
    IF Observed.state = "resolved"
    THEN ~ErrorShape(Observed.value).isErrorResponse
    ELSE FALSE

\* C24: a case whose call returns a response that is no error response has
\* not passed, whatever the pattern and the mode; a case without a pattern
\* has passed if and only if an error was observed.
C24_NoErrorNeverPasses ==
    Verified =>
        /\ PlainResponse => ~results[1].passed
        /\ args.expected_error[1] = NoText => (results[1].passed <=> ~PlainResponse)

\* a response that is no error response was verified against a pattern,
\* strictly
C24_Witness ==
    /\ Verified
    /\ PlainResponse
    /\ args.expected_error[1] # NoText
    /\ args.strict_mode
    /\ ~results[1].passed

\* the error markers, looked for without regard to case
MarkedIgnoringCase(text) ==
    \/ StringIncludes(toLowerCase(text), <<"e", "r", "r", "o", "r">>)
    \/ StringIncludes(text, <<"U+9519", "U+8BEF">>)

\* C25: a response is treated as an error response exactly when it carries
\* the error flag or one of its text items contains an error marker in any
\* case ("ERROR", "Error", "error").
C25_ErrorShapeIgnoresCase ==
    (Verified /\ Observed.state = "resolved") =>
        (results[1].response_type = "error response" <=>
            \/ Observed.value.isError
            \/ \E i \in 1..Len(Observed.value.content) :
                   /\ Observed.value.content[i].type = "text"
                   /\ MarkedIgnoringCase(Observed.value.content[i].text))


\* negative_cases of a run
MaxNegative == 2

\* part_002:3519-3540  a list of cases, each with a tool and with or without
\* a pattern
InitNegative ==
    /\ NewOperation("testNegativeCases")
    /\ args \in { NegativeArgs(cs, ps, strict) :
                    cs \in SeqsUpTo(ToolNames, MaxNegative),
                    ps \in SeqsUpTo({NoText, Zero}, MaxNegative),
                    strict \in BOOLEAN }
    /\ Len(args.test_cases) = Len(args.expected_error)

\* the target answers a case with a plain response, an error text or an
\* error object
CaseAnswers ==
    \E id \in DOMAIN pendingRequests :
      \E m \in CaseReplies(id,
                           { Response(FALSE, NoText, NoText, <<Item("text", <<"o", "k">>)>>),
                             Response(FALSE, NoText, NoText,
                                      <<Item("text", ErrorDivisionByZero)>>) },
                           { <<"D">> \o DivisionByZero }) :
        /\ Deliver(m)
        /\ Reactions

NextNegative ==
    \/ OpenSession
    \/ ConnectRejects
    \/ ConnectResolves
    \/ HandshakeSettles
    \/ NegativeDiscoverySettles
    \/ NegativeCaseSettles
    \/ CaseAnswers
    \/ TimerExpires

\* the loop over a list of cases
SpecNegative == InitNegative /\ [][NextNegative]_vars

\* C26: the validator throws only when the session could not be set up, never
\* because of a case; when it returns there is one result per case, in the
\* order of the cases, the case of an unknown tool has not passed and was not
\* sent, and the passed and failed counts add up to the number of cases.
C26_OneResultPerCase ==
    operation = "testNegativeCases" =>
        /\ exit = "thrown" => toolNames = << >> /\ Len(calls) <= 2
        /\ exit = "returned" =>
             /\ Len(results) = Len(args.test_cases)
             /\ \A i \in 1..Len(results) :
                  /\ results[i].tool_name = args.test_cases[i]
                  /\ results[i].expected_error = args.expected_error[i]
                  /\ ~Discovered(args.test_cases[i]) =>
                       ~results[i].passed /\ results[i].response_type = "unknown tool"
                  /\ Discovered(args.test_cases[i]) =>
                       results[i].response_type # "unknown tool"
             /\ Len(calls) = 2 + Cardinality(KnownUpTo(Len(args.test_cases)))
             /\ statistics.passed + statistics.failed = Len(args.test_cases)

\* a list of an unknown tool and a known one returned: the unknown one
\* failed, the call of the known one raised an error and passed
C26_Witness ==
    /\ operation = "testNegativeCases"
    /\ exit = "returned"
    /\ args.test_cases = <<"b", "a">>
    /\ Len(results) = 2
    /\ ~results[1].passed
    /\ results[2].passed
    /\ results[2].response_type = "raised"
    /\ Len(calls) = 3


(***************************************************************************)
(* The parser of a launch string: parseServerCommand (src/index.js:28-99). *)
(* A launch string is a sequence of characters; "\\" is the backslash,     *)
(* "\"" the double quote and "'" the single quote.                         *)
(***************************************************************************)
\* src/index.js:35-38  one pair of outer quotes of the same kind is cut off
StripOuterQuotes(command) ==
    IF /\ command # << >>
       /\ \/ Head(command) = "\"" /\ command[Len(command)] = "\""
          \/ Head(command) = "'" /\ command[Len(command)] = "'"
    THEN SubSeq(command, 2, Len(command) - 1)
    ELSE command

\* src/index.js:41  command.replace(/\\/g, '/')
Slashes(command) ==
    [i \in 1..Len(command) |-> IF command[i] = "\\" THEN "/" ELSE command[i]]

\* src/index.js:54-57, 62-64  if (current) parts.push(current)
Push(parts, current) == IF current # << >> THEN Append(parts, current) ELSE parts

RECURSIVE Tokenize(_, _, _, _)
\* src/index.js:45-64  the loop over the characters: a quote of either kind
\* toggles inQuotes and is dropped, a space outside quotes ends a part
Tokenize(command, parts, current, inQuotes) ==
    IF command = << >> THEN Push(parts, current)
    ELSE LET char == Head(command) IN
         IF char = "\"" \/ char = "'"
         THEN Tokenize(Tail(command), parts, current, ~inQuotes)
         ELSE IF char = " " /\ ~inQuotes
         THEN Tokenize(Tail(command), Push(parts, current), << >>, inQuotes)
         ELSE Tokenize(Tail(command), parts, Append(current, char), inQuotes)

\* src/index.js:34-64  the parts of a launch string
Parts(inputPath) == Tokenize(Slashes(StripOuterQuotes(trim(inputPath))), << >>, << >>, FALSE)

\* src/index.js:67
executableCommands ==
    { <<"n", "o", "d", "e">>,
      <<"p", "y", "t", "h", "o", "n">>,
      <<"p", "y", "t", "h", "o", "n", "3">>,
      <<"d", "e", "n", "o">>,
      <<"b", "u", "n">>,
      <<"t", "s", "x">>,
      <<"t", "s", "-", "n", "o", "d", "e">> }

\* src/index.js:68  let executable = 'node'
DefaultExecutable == <<"n", "o", "d", "e">>

\* variant of FirstPart: the first part is compared as it is written
FirstPartAsWritten(part) == part

\* src/index.js:77  parts[0].toLowerCase()
FirstPart(part) == toLowerCase(part)

CommandSpec(executable, scriptPath, rest) ==
    [executable |-> executable, scriptPath |-> scriptPath, args |-> rest]

\* src/index.js:80  parts[1] || ''
SecondPart(parts) == IF Len(parts) >= 2 THEN parts[2] ELSE NoText

\* src/index.js:66-98  the command of the parts, of which there is one at least
Classify(parts) ==
    IF FirstPart(parts[1]) \in executableCommands
    THEN CommandSpec(parts[1], SecondPart(parts), SubSeq(parts, 3, Len(parts)))
    ELSE CommandSpec(DefaultExecutable, parts[1], Tail(parts))

\* src/index.js:28-99  the command, or the error that is thrown:
\* '路径不能为空' for an empty string, '无效的命令格式' for no parts
parseServerCommand(inputPath) ==
    IF inputPath = NoText
    THEN [thrown |-> TRUE, value |-> <<"empty path">>]
    ELSE IF Parts(inputPath) = << >>
    THEN [thrown |-> TRUE, value |-> <<"invalid command">>]
    ELSE [thrown |-> FALSE, value |-> Classify(Parts(inputPath))]

\* extra arguments of a launch string
MaxArgs == 1

\* the ways a token is written: bare, in double quotes, in single quotes
Quotes == {"", "\"", "'"}

Written(token, quote) == IF quote = "" THEN token ELSE <<quote>> \o token \o <<quote>>

\* first tokens: interpreters of the allow-list in two spellings, a word that
\* is on no list, or none
FirstTokens ==
    { NoText,
      <<"n", "o", "d", "e">>,
      <<"N", "O", "D", "E">>,
      <<"D", "e", "n", "o">>,
      <<"n", "o", "d", "e", "x">> }

\* script paths: s.js, C:\a b and a b
ScriptPaths ==
    { <<"s", ".", "j", "s">>,
      <<"C", ":", "\\", "a", " ", "b">>,
      <<"a", " ", "b">> }

ExtraArgs == { <<"x">>, <<"-", "y">> }

\* a launch string by its tokens and the way each is written
Template(first, firstQuote, path, pathQuote, rest, restQuote, pad) ==
    [first |-> first, firstQuote |-> firstQuote, path |-> path, pathQuote |-> pathQuote,
     rest |-> rest, restQuote |-> restQuote, pad |-> pad]

Templates ==
    { Template(first, fq, path, pq, rest, rq, pad) :
        first \in FirstTokens, fq \in Quotes, path \in ScriptPaths, pq \in Quotes,
        rest \in {<< >>} \cup SeqsUpTo(ExtraArgs, MaxArgs), rq \in Quotes,
        pad \in {<< >>, <<" ">>} }

RECURSIVE Join(_)
\* the tokens with one space between them
Join(tokens) ==
    IF tokens = << >> THEN << >>
    ELSE IF Len(tokens) = 1 THEN tokens[1]
    ELSE tokens[1] \o <<" ">> \o Join(Tail(tokens))

\* the characters of the launch string of a template
Render(t) ==
    t.pad \o Join((IF t.first = NoText THEN << >> ELSE <<Written(t.first, t.firstQuote)>>)
                    \o <<Written(t.path, t.pathQuote)>>
                    \o [i \in 1..Len(t.rest) |-> Written(t.rest[i], t.restQuote)])
          \o t.pad

\* launch strings without a script path, and unbalanced ones
OtherStrings ==
    { NoText, <<" ">>, <<" ", " ">>, <<"\"">>, <<"\"", "\"">>, <<"'", " ", "'">>,
      <<"n", "o", "d", "e">>, <<"n", "o", "d", "e", " ">>,
      <<"d", "e", "n", "o", " ", "\"", "\"">>,
      <<"\"", "n", "o", "d", "e", "\"">>,
      <<"\"", "s", ".", "j", "s">> }

LaunchStrings == { Render(t) : t \in Templates } \cup OtherStrings

\* an operation is entered with a launch string as its server_command
InitParser ==
    /\ NewOperation("parseServerCommand")
    /\ args \in { [server_command |-> raw] : raw \in LaunchStrings }

\* src/index.js:28-99, part_002:3530  parseServerCommand(server_command)
\* returns the command or throws
Parse ==
    /\ pc = "start"
    /\ operation = "parseServerCommand"
    /\ LET parsed == parseServerCommand(args.server_command) IN
       /\ exit' = IF parsed.thrown THEN "thrown" ELSE "returned"
       /\ IF parsed.thrown
          THEN errors' = <<parsed.value>> /\ UNCHANGED results
          ELSE results' = <<parsed.value>> /\ UNCHANGED errors
    /\ pc' = "done"
    /\ Local("parseServerCommand")
    /\ UNCHANGED <<elapsed, resources, prompts, operation, args, index, toolNames, promises,
                   execution_times, statistics>>

NextParser == Parse

SpecParser == InitParser /\ [][NextParser]_vars


(***************************************************************************)
(* Claims about the parser.                                                *)
(***************************************************************************)
\* the parser has returned or thrown
Parsed == operation = "parseServerCommand" /\ pc = "done"

\* the path has a space in it
Spaced(path) == \E i \in 1..Len(path) : path[i] = " "

\* the first token, if any, is an interpreter of the allow-list in any case
Interpreted(t) == t.first = NoText \/ toLowerCase(t.first) \in executableCommands

\* C27: a launch string with a quoted path that has spaces in it (the quoted
\* path alone, an interpreter followed by the quoted path, or every token in
\* quotes) is parsed, and scriptPath is that path in one piece, with its
\* spaces, without quotes (its backslashes written as slashes).
C27_QuotedPathSurvives ==
    Parsed =>
        \A t \in Templates :
            (Render(t) = args.server_command /\ Spaced(t.path) /\ t.pathQuote # ""
                /\ Interpreted(t)) =>
                /\ exit = "returned"
                /\ results[1].scriptPath = Slashes(t.path)

\* C28: a command that the parser returns has a script path that is not
\* empty; a launch string without a script path makes the parser throw.
C28_ScriptPathNotEmpty ==
    (Parsed /\ exit = "returned") => results[1].scriptPath # NoText

\* C29: when the first part of the launch string is an interpreter of the
\* allow-list in any case, it is the executable, the second part is the
\* script path and the parts from the third on are the arguments; otherwise
\* the executable is the default one, the first part is the script path and
\* the parts from the second on are the arguments.
C29_Classification ==
    (Parsed /\ exit = "returned") =>
        LET parts == Parts(args.server_command) IN
        IF toLowerCase(parts[1]) \in executableCommands
        THEN /\ results[1].executable = parts[1]
             /\ Len(parts) >= 2 => results[1].scriptPath = parts[2]
             /\ results[1].args = SubSeq(parts, 3, Len(parts))
        ELSE /\ results[1].executable = DefaultExecutable
             /\ results[1].scriptPath = parts[1]
             /\ results[1].args = SubSeq(parts, 2, Len(parts))

\* NODE s.js x was parsed: the interpreter as written, the script, one argument
C29_Witness ==
    /\ Parsed
    /\ exit = "returned"
    /\ args.server_command = <<"N", "O", "D", "E", " ", "s", ".", "j", "s", " ", "x">>
    /\ results[1].executable = <<"N", "O", "D", "E">>
    /\ results[1].scriptPath = <<"s", ".", "j", "s">>
    /\ results[1].args = <<<<"x">>>>


(***************************************************************************)
(* Best-effort discovery: listResources and listPrompts                    *)
(* (src/index.js:255-275).  SpecDiscovery is a caller that lists the       *)
(* resources and the prompts of one client a few times, before and after   *)
(* connect(); results holds what the last listing returned.                *)
(***************************************************************************)
\* listings of a run
MaxListings == 2

Listings == {"listResources", "listPrompts"}

\* src/index.js:257, 268  the method of a listing
MethodOf(listing) == IF listing = "listResources" THEN "resources/list" ELSE "prompts/list"

\* the result member of a response to a listing: an object with or without
\* the members resources and prompts (NoText: without), or null
ListResult(res, prs) == [kind |-> "object", resources |-> res, prompts |-> prs]
NullResult == [kind |-> "null", resources |-> NoText, prompts |-> NoText]

\* the answers of the target to the request id of a listing
ListReplies(id) ==
    { Msg(id, FALSE, NoError, r) :
        r \in { ListResult(<<"r">>, <<"p">>), ListResult(<<"s">>, <<"q">>),
                ListResult(NoText, NoText), NullResult } }
        \cup { Msg(id, FALSE, ErrorObject(<<"Method not found">>), NoText) }

InitDiscovery ==
    /\ NewOperation("discover")
    /\ args = NoArgs

\* connect() was fulfilled: the caller goes on
ConnectFulfilled ==
    /\ pc = "connect"
    /\ operation = "discover"
    /\ pc' = "idle"
    /\ Local("connected")
    /\ UNCHANGED <<elapsed, resources, prompts, operation, args, index, toolNames, promises, results,
                   execution_times, errors, statistics, exit>>

\* src/index.js:256-257, 267-268  a listing is called: its request is sent
ListingCalled ==
    /\ pc \in {"start", "idle"}
    /\ operation = "discover"
    /\ index < MaxListings
    /\ \E listing \in Listings :
         /\ Call(MethodOf(listing))
         /\ pc' = listing
    /\ index' = index + 1
    /\ promises' = <<ThisCall>>
    /\ exit' = "running"
    /\ UNCHANGED <<elapsed, resources, prompts, operation, args, toolNames, results, execution_times,
                   errors, statistics>>

\* what a listing ends with: it returns a value or it throws
Returns(value) == [thrown |-> FALSE, value |-> value]

\* variant of ListCatch: the failure is passed on to the caller
ListRethrow(message) == [thrown |-> TRUE, value |-> message]

\* src/index.js:260-263, 271-274  catch (e) { return []; }
ListCatch(message) == Returns(<< >>)

\* src/index.js:258, 269  result.resources || [], result.prompts || []; reading
\* a member of null throws a TypeError inside the try block
Listed(listing, result) ==
    IF result.kind = "null" THEN ListCatch(<<"TypeError">>)
    ELSE Returns(IF listing = "listResources" THEN result.resources ELSE result.prompts)

\* src/index.js:255-275  the listing from the settled promise of its request
ListingOutcome(listing, out) ==
    IF out.state = "rejected" THEN ListCatch(out.value) ELSE Listed(listing, out.value)

\* the listing failed: its request was rejected, or its result was null
ListingFailed(out) ==
    IF out.state = "rejected" THEN TRUE ELSE out.value.kind = "null"

\* src/index.js:257-263, 268-274  the request of the listing settled: the
\* list is stored and returned, or the failure is caught
ListingSettles ==
    /\ pc \in Listings
    /\ Settled(promises[1])
    /\ LET out == outcome[promises[1]]
           end == ListingOutcome(pc, out)
       IN
       /\ exit' = IF end.thrown THEN "thrown" ELSE "returned"
       /\ results' = end.value
       /\ resources' = IF pc = "listResources" /\ ~ListingFailed(out)
                       THEN end.value ELSE resources
       /\ prompts' = IF pc = "listPrompts" /\ ~ListingFailed(out)
                     THEN end.value ELSE prompts
    /\ pc' = IF process = "child" THEN "idle" ELSE "start"
    /\ ev' = Event(pc, NoId)
    /\ UNCHANGED client
    /\ UNCHANGED transport
    /\ UNCHANGED <<elapsed, operation, args, index, toolNames, promises, execution_times, errors,
                   statistics>>

ListingReplies ==
    \E id \in DOMAIN pendingRequests : \E m \in ListReplies(id) :
        /\ Deliver(m)
        /\ Reactions

NextDiscovery ==
    \/ OpenSession
    \/ ConnectFulfilled
    \/ ListingCalled
    \/ ListingSettles
    \/ ListingReplies
    \/ TimerExpires

SpecDiscovery == InitDiscovery /\ [][NextDiscovery]_vars

\* the step in which a listing ends after its request failed
FailedListingEnds ==
    /\ pc \in Listings
    /\ pc' \notin Listings
    /\ ListingFailed(outcome[promises[1]])

\* C30: listResources and listPrompts are best-effort: when the request of a
\* listing is rejected (an error object of the target, a timeout, a write that
\* throws) or its result cannot be read, the listing throws nothing, returns
\* the empty sequence, and leaves this.resources and this.prompts as they were.
C30_ListingIsBestEffort ==
    [][FailedListingEnds =>
          /\ exit' = "returned"
          /\ results' = << >>
          /\ resources' = resources
          /\ prompts' = prompts]_vars

\* after a listing that stored the resources of the target, a second listing
\* of the resources was rejected and returned the empty sequence: the stored
\* resources are still there
C30_Witness ==
    /\ operation = "discover"
    /\ ev.op = "listResources"
    /\ index = 2
    /\ outcome[promises[1]].state = "rejected"
    /\ exit = "returned"
    /\ results = << >>
    /\ resources = <<"r">>


(***************************************************************************)
(* test_mcp_server and the timer of a request (src/index.js:497-606,       *)
(* 210-216).  SpecTimeout is one run of testMCPServer with a timeout        *)
(* argument, against a target that answers each request with a result, an  *)
(* error object, or not at all; elapsed[c] counts the seconds since the     *)
(* timer of call c was armed, up to the moment the call is settled.         *)
(***************************************************************************)
\* src/index.js:216  setTimeout(..., 30000), in seconds
RequestTimeout == 30

\* the step of the clock, in seconds
Tick == RequestTimeout \div 3

\* src/index.js:324-328, 503  the timeout argument, in seconds: shorter than,
\* equal to (the default) and longer than 30
Timeouts == {RequestTimeout - 2 * Tick, RequestTimeout, RequestTimeout + 2 * Tick}

\* variant of TimerDelay: the timer runs for the timeout argument of the run
TimerDelayOfRun(timeout) == timeout

\* src/index.js:210-216  the delay of the timer of a request: the literal
\* 30000, whatever the timeout argument of the operation (src/index.js:503
\* destructures it and nothing reads it)
TimerDelay(timeout) == RequestTimeout

InitTimeout ==
    /\ NewOperation("testMCPServer")
    /\ args \in { [timeout |-> t] : t \in Timeouts }

\* a request of the run: written, and its timer armed now
TimedCall(method) ==
    /\ Call(method)
    /\ elapsed' = Append(elapsed, 0)

\* src/index.js:600-604  catch: testResults.errors.push(error.message);
\* finally: client.disconnect(); the report is returned
ServerCatch(message) ==
    /\ disconnect
    /\ pc' = "done"
    /\ exit' = "returned"
    /\ errors' = Append(errors, message)
    /\ promises' = << >>
    /\ UNCHANGED <<elapsed, resources, prompts, operation, args, index, toolNames, results,
                   execution_times, statistics>>

\* src/index.js:598-604  the try block ends: finally disconnects
ServerReturn(sample) ==
    /\ disconnect
    /\ pc' = "done"
    /\ exit' = "returned"
    /\ results' = sample
    /\ promises' = << >>
    /\ UNCHANGED <<elapsed, operation, args, index, execution_times, errors, statistics>>

\* src/index.js:538  the 'error' event of the child rejects connect()
ServerConnectRejects ==
    /\ pc = "connect"
    /\ ServerCatch(<<"spawn">>)

\* src/index.js:538-545  connect() is fulfilled: await client.initialize()
ServerConnectResolves ==
    /\ pc = "connect"
    /\ initialize
    /\ elapsed' = Append(elapsed, 0)
    /\ pc' = "initialize"
    /\ promises' = <<ThisCall>>
    /\ UNCHANGED <<resources, prompts, operation, args, index, toolNames, results,
                   execution_times, errors, statistics, exit>>

\* the next await of the run
Await(method, position) ==
    /\ TimedCall(method)
    /\ pc' = position
    /\ promises' = <<ThisCall>>
    /\ UNCHANGED <<operation, args, index, results, execution_times, errors, statistics, exit>>

\* src/index.js:545-553  initialize() settled: await client.listTools()
ServerHandshakeSettles ==
    /\ pc = "initialize"
    /\ Settled(promises[1])
    /\ IF outcome[promises[1]].state = "rejected"
       THEN ServerCatch(outcome[promises[1]].value)
       ELSE /\ Await("tools/list", "listTools")
            /\ UNCHANGED <<resources, prompts, toolNames>>

\* src/index.js:553-561  listTools() settled: await client.listResources()
ServerToolsSettle ==
    /\ pc = "listTools"
    /\ Settled(promises[1])
    /\ IF outcome[promises[1]].state = "rejected"
       THEN ServerCatch(outcome[promises[1]].value)
       ELSE /\ Await("resources/list", "listResources")
            /\ toolNames' = Tools(outcome[promises[1]].value)
            /\ UNCHANGED <<resources, prompts>>

\* src/index.js:560-567, 255-264  listResources() settled, its failure
\* swallowed: await client.listPrompts()
ServerResourcesSettle ==
    /\ pc = "listResources"
    /\ Settled(promises[1])
    /\ Await("prompts/list", "listPrompts")
    /\ resources' = IF ListingFailed(outcome[promises[1]]) THEN resources
                    ELSE ListingOutcome(pc, outcome[promises[1]]).value
    /\ UNCHANGED <<prompts, toolNames>>

\* src/index.js:569-597, 266-275  listPrompts() settled: the first tool, if
\* there is one, is called
ServerPromptsSettle ==
    /\ pc = "listPrompts"
    /\ Settled(promises[1])
    /\ prompts' = IF ListingFailed(outcome[promises[1]]) THEN prompts
                  ELSE ListingOutcome(pc, outcome[promises[1]]).value
    /\ IF Len(toolNames) > 0
       THEN /\ Await("tools/call", "callTool")
            /\ UNCHANGED <<resources, toolNames>>
       ELSE /\ ServerReturn(results)
            /\ UNCHANGED <<resources, toolNames>>

\* src/index.js:581-596  the sample call settled: testResults.sampleToolCall
ServerSampleSettles ==
    /\ pc = "callTool"
    /\ Settled(promises[1])
    /\ ServerReturn(<<ResultOf(toolNames[1], outcome[promises[1]])>>)
    /\ UNCHANGED <<resources, prompts, toolNames>>

\* the answers of the target to the request the run awaits
TimedReplies(id) ==
    CASE pc \in Listings ->
            { Msg(id, FALSE, NoError, ListResult(<<"r">>, <<"p">>)),
              Msg(id, FALSE, ErrorObject(<<"Method not found">>), NoText) }
      [] pc = "listTools" ->
            { Msg(id, FALSE, NoError, TargetTools), Msg(id, FALSE, NoError, << >>),
              Msg(id, FALSE, ErrorObject(<<"boom">>), NoText) }
      [] OTHER -> Replies(id)

\* the target answers the awaited request before its timer expires
ServerReplies ==
    /\ \E id \in DOMAIN pendingRequests : \E m \in TimedReplies(id) :
         Deliver(m)
    /\ UNCHANGED tester

\* the timer of call c has run for its delay
Due(c) == elapsed[c] >= TimerDelay(args.timeout)

\* time passes while a request is unanswered and no timer is due
ClockTicks ==
    /\ pendingRequests # << >>
    /\ \A c \in 1..Len(calls) : MapHas(pendingRequests, calls[c]) => ~Due(c)
    /\ elapsed' = [c \in 1..Len(calls) |->
                     IF MapHas(pendingRequests, calls[c]) THEN elapsed[c] + Tick
                     ELSE elapsed[c]]
    /\ Local("tick")
    /\ UNCHANGED <<resources, prompts, operation, args, pc, index, toolNames, promises,
                   results, execution_times, errors, statistics, exit>>

\* src/index.js:211-216  the timer of an unanswered request expires
TimerDue ==
    /\ \E c \in 1..Len(calls) :
         /\ MapHas(pendingRequests, calls[c])
         /\ Due(c)
         /\ TimeoutFires(c)
    /\ UNCHANGED tester

NextTimeout ==
    \/ OpenSession
    \/ ServerConnectRejects
    \/ ServerConnectResolves
    \/ ServerHandshakeSettles
    \/ ServerToolsSettle
    \/ ServerResourcesSettle
    \/ ServerPromptsSettle
    \/ ServerSampleSettles
    \/ ServerReplies
    \/ ClockTicks
    \/ TimerDue

SpecTimeout == InitTimeout /\ [][NextTimeout]_vars

\* C31: the timeout argument of test_mcp_server is the bound of its requests:
\* a request of the run is never left unanswered for longer than that many
\* seconds, and a request rejected with the timeout error was rejected that
\* many seconds after it was written.
C31_TimeoutArgumentIsTheBound ==
    \A c \in 1..Len(calls) :
        /\ outcome[c].state = "pending" => elapsed[c] <= args.timeout
        /\ outcome[c] = Rejected(TimeoutError) => elapsed[c] = args.timeout


(***************************************************************************)
(* validate_mcp_tools and the arguments of its test calls                  *)
(* (src/index.js:668-806).  SpecValidate is one run of validateMCPTools    *)
(* with a tool_name (the empty string: none) and a test_params object.     *)
(* A JavaScript value is a record [kind, val]; the val of an object maps   *)
(* its keys to values.                                                     *)
(***************************************************************************)
UndefinedValue == [kind |-> "undefined", val |-> << >>]
Number(n) == [kind |-> "number", val |-> n]
Object(members) == [kind |-> "object", val |-> members]

\* Object.keys(value)
Keys(value) == DOMAIN value.val

\* value[key] of an object
Member(value, key) == IF key \in Keys(value) THEN value.val[key] ELSE UndefinedValue

\* the truth value of a JavaScript value in a condition
Truthy(value) ==
    CASE value.kind = "undefined" -> FALSE
      [] value.kind = "number" -> value.val # 0
      [] OTHER -> TRUE

\* src/index.js:1408-1470  the example arguments generated from the schema of a tool
generateExampleCall(name) == [kind |-> "example", val |-> name]

\* variant of TestArgs: with a tool_name and a non-empty test_params the
\* object itself is used, whatever its keys
TestArgsDirect(tool_name, test_params, name) ==
    IF tool_name # "" /\ Keys(test_params) # {} THEN test_params
    ELSE IF Truthy(Member(test_params, name)) THEN Member(test_params, name)
    ELSE generateExampleCall(name)

\* src/index.js:741-751, 768-777  the arguments of the test call of a tool
TestArgs(tool_name, test_params, name) ==
    IF tool_name # "" /\ Keys(test_params) # {} /\ ~Truthy(Member(test_params, name))
    THEN test_params
    ELSE IF Truthy(Member(test_params, name)) THEN Member(test_params, name)
    ELSE generateExampleCall(name)

\* the tools of the target: "c" has no inputSchema
ValidatedTools == <<"a", "c", "b">>

\* src/index.js:711-731  the schema of the tool passes the checks
SchemaValid(name) == name # "c"

\* src/index.js:700-703  the tools to test
RECURSIVE ToolsToTest(_, _)
ToolsToTest(tools, tool_name) ==
    IF tools = << >> THEN << >>
    ELSE IF tool_name = "" \/ Head(tools) = tool_name
    THEN <<Head(tools)>> \o ToolsToTest(Tail(tools), tool_name)
    ELSE ToolsToTest(Tail(tools), tool_name)

\* src/index.js:705  `未找到工具: ${tool_name}`
ToolNotFound(name) == <<"tool not found", name>>

\* src/index.js:757-763, 779-783  testResult; not called: null
NoTestResult == [called |-> FALSE, success |-> FALSE, testArgs |-> UndefinedValue]
TestResult(success, testArgs) == [called |-> TRUE, success |-> success, testArgs |-> testArgs]

\* src/index.js:709-715  toolValidation; arguments is the arguments member of
\* the tools/call request written for the tool (src/index.js:754, 250)
Validation(name, schemaValid, arguments, testResult) ==
    [name |-> name, schemaValid |-> schemaValid, arguments |-> arguments,
     testResult |-> testResult]

\* the test_params of a run: no key, the name of a tool as a key, another key
ParamKeys == {"a", "x"}
ParamValues == {Number(0), Number(100), Object([k \in {"x"} |-> Number(1)])}
TestParams == { Object(f) : f \in UNION { [K -> ParamValues] : K \in SUBSET ParamKeys } }

InitValidate ==
    /\ NewOperation("validateMCPTools")
    /\ args \in { [tool_name |-> n, test_params |-> p] :
                    n \in {"", "a", "b", "z"}, p \in TestParams }

\* src/index.js:709-733, 794  the tools without a valid schema from position
\* i on are recorded without a call
RECURSIVE Uncalled(_, _, _)
Uncalled(tools, i, res) ==
    IF i > Len(tools) THEN [index |-> i, results |-> res]
    ELSE IF SchemaValid(tools[i]) THEN [index |-> i, results |-> res]
    ELSE Uncalled(tools, i + 1,
                  Append(res, Validation(tools[i], FALSE, UndefinedValue, NoTestResult)))

\* src/index.js:708-754, 801-806  the loop goes on with tool i: its test call
\* is written, or the loop has ended and the report is returned
ValidateContinue(i, tools, res) ==
    LET next == Uncalled(tools, i, res) IN
    IF next.index > Len(tools)
    THEN ServerReturn(next.results)
    ELSE /\ Call("tools/call")
         /\ pc' = "callTool"
         /\ index' = next.index
         /\ promises' = <<ThisCall>>
         /\ results' = Append(next.results,
                              Validation(tools[next.index], TRUE,
                                         TestArgs(args.tool_name, args.test_params,
                                                  tools[next.index]),
                                         NoTestResult))
         /\ UNCHANGED <<elapsed, operation, args, execution_times, errors, statistics, exit>>

\* src/index.js:693-697  initialize() settled: await client.listTools()
ValidateHandshakeSettles ==
    /\ pc = "initialize"
    /\ operation = "validateMCPTools"
    /\ Settled(promises[1])
    /\ IF outcome[promises[1]].state = "rejected"
       THEN ServerCatch(outcome[promises[1]].value)
       ELSE /\ Call("tools/list")
            /\ pc' = "listTools"
            /\ promises' = <<ThisCall>>
            /\ UNCHANGED <<elapsed, resources, prompts, operation, args, index, toolNames,
                           results, execution_times, errors, statistics, exit>>

\* src/index.js:696-708  listTools() settled: the tools to test are selected
ValidateDiscoverySettles ==
    /\ pc = "listTools"
    /\ operation = "validateMCPTools"
    /\ Settled(promises[1])
    /\ LET out == outcome[promises[1]]
           toolsToTest == ToolsToTest(Tools(out.value), args.tool_name)
       IN
       IF out.state = "rejected"
       THEN ServerCatch(out.value)
       ELSE IF args.tool_name # "" /\ Len(toolsToTest) = 0
       THEN ServerCatch(ToolNotFound(args.tool_name))
       ELSE /\ ValidateContinue(1, toolsToTest, << >>)
            /\ toolNames' = toolsToTest
            /\ UNCHANGED <<resources, prompts>>

\* src/index.js:753-799  the test call settled: testResult is recorded, the
\* loop goes on
ValidateCaseSettles ==
    /\ pc = "callTool"
    /\ operation = "validateMCPTools"
    /\ Settled(promises[1])
    /\ LET testArgs == TestArgs(args.tool_name, args.test_params, toolNames[index])
           testResult == TestResult(outcome[promises[1]].state = "resolved", testArgs)
       IN
       ValidateContinue(index + 1, toolNames,
                        [results EXCEPT ![Len(results)].testResult = testResult])
    /\ UNCHANGED <<resources, prompts, toolNames>>

\* the answers of the target to the request the run awaits
ValidateAnswers ==
    /\ \E id \in DOMAIN pendingRequests :
         \E m \in IF pc = "listTools"
                  THEN { Msg(id, FALSE, NoError, ValidatedTools),
                         Msg(id, FALSE, ErrorObject(<<"boom">>), NoText) }
                  ELSE Replies(id) :
           Deliver(m)
    /\ UNCHANGED tester

NextValidate ==
    \/ OpenSession
    \/ ServerConnectRejects
    \/ ConnectResolves
    \/ ValidateHandshakeSettles
    \/ ValidateDiscoverySettles
    \/ ValidateCaseSettles
    \/ ValidateAnswers
    \/ TimerExpires

SpecValidate == InitValidate /\ [][NextValidate]_vars

\* the tool has an entry of its own in test_params: a member under its name
\* whose value is not one that counts as absent (undefined, null, 0)
Present(test_params, name) == name \in Keys(test_params) /\ Truthy(Member(test_params, name))

\* C32: with a tool_name and a non-empty test_params, the arguments written
\* in the tools/call request of the tool and the request parameters recorded
\* in its result are test_params itself; without a tool_name they are
\* test_params[name of the tool] when that entry is present and the
\* generated example when it is not.
C32_TestParamsAreTheArguments ==
    \A i \in 1..Len(results) :
        LET r == results[i]
            expected == IF args.tool_name # "" THEN args.test_params
                        ELSE IF Present(args.test_params, r.name)
                        THEN Member(args.test_params, r.name)
                        ELSE generateExampleCall(r.name)
        IN
        (/\ operation = "validateMCPTools"
         /\ r.schemaValid
         /\ args.tool_name # "" => Keys(args.test_params) # {})
        => /\ r.arguments = expected
           /\ r.testResult.called => r.testResult.testArgs = expected


(***************************************************************************)
(* Claims about the correlation of requests and messages                   *)
(* (src/index.js:171-218, 277-283), on the bare client of Spec.            *)
(***************************************************************************)
\* the step is a sendRequest: it stamped one more call
Requested == Len(calls') = Len(calls) + 1

\* C33: sendRequest registers the pending entry of its id with the write:
\* when the request was written the entry is there, under the id it stamped
\* and for that call, so that a message with that id finds it and settles the
\* call; when the write throws, the entry is removed and the caller rejected,
\* and the pending map is as it was before the call.
C33_RegisteredWithTheWrite ==
    [][/\ Requested =>
            LET c == Len(calls')
                id == calls'[c]
            IN IF process = "child"
               THEN /\ id \in DOMAIN pendingRequests'
                    /\ pendingRequests'[id] = c
                    /\ outcome'[c].state = "pending"
                    /\ \A k \in DOMAIN pendingRequests : pendingRequests'[k] = pendingRequests[k]
               ELSE /\ pendingRequests' = pendingRequests
                    /\ outcome'[c] = Rejected(WriteError)
       /\ (ev'.op = "message" /\ ev'.id \in DOMAIN pendingRequests) =>
            /\ outcome[pendingRequests[ev'.id]].state = "pending"
            /\ outcome'[pendingRequests[ev'.id]].state # "pending"
      ]_vars

\* a request was rejected by its write, a later one was written and answered
C33_Witness ==
    \E c, d \in 1..Len(calls) :
        /\ c < d
        /\ outcome[c] = Rejected(WriteError)
        /\ outcome[d].state = "resolved"
        /\ calls[d] \notin DOMAIN pendingRequests


\* the requests stamped so far
Stamped == 1..Len(calls)

\* the pending entry of call d is the same before and after the step
EntryKept(d) ==
    IF calls[d] \in DOMAIN pendingRequests
    THEN calls[d] \in DOMAIN pendingRequests' /\ pendingRequests'[calls[d]] = pendingRequests[calls[d]]
    ELSE calls[d] \notin DOMAIN pendingRequests'

\* the call the step is about: the one whose id the message carries, the
\* one whose timer expired; a sendRequest is about the call it stamps
Own(d) ==
    CASE ev'.op = "message" -> ev'.id \in DOMAIN pendingRequests /\ pendingRequests[ev'.id] = d
      [] ev'.op = "timeout" -> timer[d] = "armed" /\ timer'[d] = "fired"
      [] OTHER -> FALSE

\* C34: a timeout, a message or a failed write of one call changes only that
\* call: every other call keeps its outcome, its pending entry and its
\* timer, so that it is settled by its own response or its own timeout; one
\* step is about one call at most.
C34_CallsAreIsolated ==
    [][(ev'.op \in {"message", "timeout"} \cup Methods) =>
            /\ \A d \in Stamped :
                 ~Own(d) => /\ outcome'[d] = outcome[d]
                            /\ timer'[d] = timer[d]
                            /\ EntryKept(d)
            /\ \A d, e \in Stamped : (Own(d) /\ Own(e)) => d = e
      ]_vars

\* the first call timed out while the second was outstanding; the second
\* was then resolved by its own response
C34_Witness ==
    /\ Len(calls) = 2
    /\ outcome[1] = Rejected(TimeoutError)
    /\ outcome[2].state = "resolved"
    /\ timer[2] = "armed"
    /\ ev = Event("message", calls[2])

\* C35: an inbound message with a method and no id is a notification: the
\* step emits exactly one 'notification' event and leaves the pending map
\* and every caller as they were.
C35_NotificationGoesToTheSink ==
    [][(ev'.op = "message" /\ ev'.id = NoId) =>
            \A m \in MethodMessages : (m.id = NoId /\ Deliver(m)) =>
                /\ notifications' = 1
                /\ pendingRequests' = pendingRequests
                /\ outcome' = outcome
      ]_vars

\* a notification arrived while a call was outstanding
C35_Witness ==
    /\ ev = Event("message", NoId)
    /\ notifications = 1
    /\ \E c \in Stamped : outcome[c].state = "pending" /\ calls[c] \in DOMAIN pendingRequests

\* C37: a caller is settled at most once: the outcome of a settled call never
\* changes again, whatever arrives or expires afterwards, and from the moment
\* it is settled its id is not in the pending map.
C37_SettledAtMostOnce ==
    [][/\ \A c \in Stamped :
            outcome[c].state # "pending" => outcome'[c] = outcome[c]
       /\ \A c \in 1..Len(calls') :
            outcome'[c].state # "pending" => calls'[c] \notin DOMAIN pendingRequests'
      ]_vars

\* a call rejected by its timer got a late response, a second call was
\* closed before it was answered
C37_Witness ==
    /\ Len(calls) = 2
    /\ outcome[1] = Rejected(TimeoutError)
    /\ ev = Event("message", calls[1])
    /\ timer[1] = "fired"
    /\ outcome[2].state = "pending"
    /\ process = "null"

\* C38: only a response settles a call: a message that carries a method is a
\* request or a notification of the target, and even when its id is the id
\* of a pending call it neither resolves nor rejects that call nor removes
\* its entry.
C38_MethodMessageSettlesNothing ==
    [][ev'.op = "message" =>
            \A m \in MethodMessages : (m.id = ev'.id /\ Deliver(m)) =>
                /\ pendingRequests' = pendingRequests
                /\ outcome' = outcome
      ]_vars


\* the least number of groups of at most `size` that hold `count` items
Ceiling(count, size) ==
    CHOOSE k \in 0..count : k * size >= count /\ (k = 0 \/ (k - 1) * size < count)

\* C36: a benchmark that returns has issued exactly `iterations` measured
\* calls, for every iterations >= 0 and concurrent_requests >= 1.  In the
\* batched branch a batch that has been dispatched holds between 1 and
\* concurrent_requests calls, it is smaller than concurrent_requests only if
\* it is the last one, the batches before it were full, and at the end the
\* batches were ceil(iterations / concurrent_requests) in number and their
\* sizes sum to iterations.
C36_ExactlyIterationsCalls ==
    (operation = "benchmarkSingleTool" /\ exit # "thrown") =>
        /\ (pc = "batch") =>
             /\ Len(promises) >= 1
             /\ Len(promises) <= args.concurrent_requests
             /\ Len(promises) < args.concurrent_requests =>
                  (index + 1) * args.concurrent_requests >= args.iterations
             /\ Cardinality(Measured) = index * args.concurrent_requests + Len(promises)
             /\ index < Ceiling(args.iterations, args.concurrent_requests)
        /\ (pc \in {"measure", "batchDispatch", "batch"}) =>
             Cardinality(Measured) <= args.iterations
        /\ exit = "returned" =>
             /\ Cardinality(Measured) = args.iterations
             /\ (args.concurrent_requests > 1 /\ args.iterations > 0) =>
                  index + 1 = Ceiling(args.iterations, args.concurrent_requests)

\* 3 iterations in batches of 2 and 1 have returned
C36_Witness ==
    /\ operation = "benchmarkSingleTool"
    /\ exit = "returned"
    /\ args.iterations = 3
    /\ args.concurrent_requests = 2
    /\ index = 1
    /\ Cardinality(Measured) = 3

\* a benchmark of no iteration returns without a measured call
C36_WitnessZero ==
    /\ operation = "benchmarkSingleTool"
    /\ exit = "returned"
    /\ args.iterations = 0
    /\ args.concurrent_requests = 2
    /\ Cardinality(Measured) = 0


\* a batch test that returned its report
BatchReturned == operation = "batchTestTools" /\ exit = "returned"

\* the serial loop was left at a failed case
StoppedEarly ==
    /\ ~args.parallel
    /\ args.stop_on_error
    /\ \E i \in 1..Len(results) : ~results[i].success

\* C39: in the report of a batch test successful + failed is the number of
\* per-case results, which is at most total_cases and equal to it in
\* parallel mode and in serial mode when the loop was not stopped early; the
\* two counts are the results with and without the success flag.
C39_CountsPartitionResults ==
    BatchReturned =>
        /\ statistics.successful + statistics.failed = Len(results)
        /\ Len(results) <= statistics.total_cases
        /\ statistics.total_cases = Len(args.test_cases)
        /\ ~StoppedEarly => Len(results) = statistics.total_cases
        /\ statistics.successful =
              Cardinality({ i \in 1..Len(results) : results[i].success = TRUE })
        /\ statistics.failed =
              Cardinality({ i \in 1..Len(results) : results[i].success = FALSE })

\* a serial run of three cases stopped at the failure of its second case
C39_Witness ==
    /\ BatchReturned
    /\ StoppedEarly
    /\ Len(args.test_cases) = 3
    /\ statistics.successful = 1
    /\ statistics.failed = 1


\* a benchmark of a server that returned with its summary computed
Summarized ==
    /\ operation = "benchmarkMCPPerformance"
    /\ exit = "returned"
    /\ statistics.total_requests > 0

\* the attempts of the run: the requests of the iterations and of the
\* concurrent test, i.e. those after initialize and the first listTools
Attempts == { c \in 1..Len(calls) : c > 2 }

\* the attempts that were fulfilled
Fulfilled == { c \in Attempts : outcome[c].state = "resolved" }

\* C40: the success rate of a benchmark report is a percentage between 0 and
\* 100, and it is the share of the attempts of the run (the requests of the
\* iterations and of the concurrent test) that succeeded, to the two
\* decimals of the report (the rate is kept in hundredths of a percent).
C40_SuccessRateIsAShare ==
    Summarized =>
        /\ statistics.success_rate >= 0
        /\ statistics.success_rate <= 10000
        /\ 2 * statistics.success_rate * Cardinality(Attempts)
              <= 2 * 10000 * Cardinality(Fulfilled) + Cardinality(Attempts)
        /\ 2 * statistics.success_rate * Cardinality(Attempts)
              >= 2 * 10000 * Cardinality(Fulfilled) - Cardinality(Attempts)
====
